---- MODULE Spec2Model ----
(***************************************************************************)
(* Ghostty layout execution engine (src/src/utils.ts): the recursive       *)
(* createLayoutStructure traversal, the primitives createSplit,            *)
(* navigateToPane and runCommand with their withRetry / withTimeout        *)
(* wrappers, and ensureGhosttyFrontmost, driving a terminal through        *)
(* osascript child processes.                                              *)
(*                                                                         *)
(* Strings are sequences of one-character strings, so that prefix tests,   *)
(* escaping and concatenation are computed as the code computes them.      *)
(* An absent (undefined) string is the empty sequence: the code tests      *)
(* strings with `||` and `if (s)`, which treat "" and undefined alike.     *)
(***************************************************************************)
EXTENDS Integers, Sequences, FiniteSets, TLC

VARIABLES
  structure,      \* the Split | Pane handed to createLayoutStructure
  rootDirectory,  \* its rootDirectory argument ("" when absent)
  useCurrentTab,  \* its useCurrentTab argument
  stack,          \* activation records of createLayoutStructure, innermost last
  prim,           \* the primitive (createSplit/navigateToPane/runCommand) being executed
  error,          \* the exception travelling up the awaits, if any
  status,         \* "running", "done" (promise resolved) or "failed" (promise rejected)
  calls,          \* every osascript child process started, in order
  prims,          \* every primitive invoked by createLayoutStructure, in order
  running,        \* indexes into calls of the child processes that have not exited
  target,         \* the terminal: its panes and the focused pane
  faultLimit,     \* how many primitive calls the environment may disturb in this run
  faults,         \* how many it has disturbed so far
  delayLog,       \* every call made on adaptiveDelay, in order
  focusRun,       \* what the run of ensureGhosttyFrontmost just made has met
  retry,          \* a withRetry call made on its own: its options, locals and outcome
  timer,          \* the setTimeout timer of the withTimeout call of the current attempt
  retryLog,       \* what that withRetry call did, in order: fn, onRetry, wait
  breaker,        \* a CircuitBreaker: its options and private fields
  now,            \* Date.now()
  inFlight,       \* executions of the breaker whose fn() has not settled
  observed,       \* what has been seen of the breaker from outside: the latest
                  \* event and the counts the properties speak of
  delay,          \* a ContextualDelay: its own AdaptiveDelay fields and contextMap
  sleeping,       \* the wait() calls of that object whose timer has not fired
  delayCall,      \* the latest call made on that object, and how many were made
  schema,         \* a value handed to validateLayoutStructure and what came of it
  recent,         \* the stored recent repositories and a call of addRecentRepo
  lastUsed,       \* the stored last-used map and two calls of setLastUsedRepo
  library,        \* the stored node templates and a call of importCustomNodeTemplates
  queue           \* an AppleScriptQueue and a call of its executeBatch

\* the layout engine
engineVars == <<structure, rootDirectory, useCurrentTab, stack, prim, error,
                status, calls, prims, running, target, faultLimit, faults,
                delayLog, focusRun>>

\* withRetry / withTimeout and CircuitBreaker exercised on their own
retryVars == <<retry, timer, retryLog>>
breakerVars == <<breaker, now, inFlight, observed>>
delayVars == <<delay, sleeping, delayCall>>
\* the services around the engine, each exercised on its own
serviceVars == <<schema, recent, lastUsed, library, queue>>
standalone == <<retryVars, breakerVars, delayVars, serviceVars>>

vars == <<engineVars, standalone>>

\* the arguments of the run and the kind of environment, which never change
input == <<structure, rootDirectory, useCurrentTab, faultLimit>>

-----------------------------------------------------------------------------
(* Bounds of the model *)

\* nodes (Splits and Panes) of a tree executed in an undisturbed environment
MaxNodes == 5
\* nodes of a tree executed in an environment that may disturb calls
MaxFaultNodes == 4
\* disturbances per run: focus checks that fail or find another application
\* frontmost, primitives whose script is rejected, scripts that hang
MaxFaults == 1
\* repository paths there are beyond the MAX_RECENT_REPOS the list can hold
MaxExtraPaths == 1
\* calls of addRecentRepo made one after the other
MaxRecentCalls == 2
\* scripts in one executeBatch call, and executeBatch calls on one queue
MaxBatchLen == 2
MaxBatches == 2
\* templates in the payload of one importCustomNodeTemplates call
MaxIncoming == 2
\* nodes of a JSON value handed to validateLayoutStructure
MaxSchemaNodes == 3
\* nodes of a tree executed in an environment whose focus checks may also be
\* answered "ghostty" in lower case or fail at the corrective activation,
\* and whose retries may hang at no cost
MaxFocusNodes == 3

-----------------------------------------------------------------------------
(* Strings *)

Absent == <<>>

Repo == <<"/", "r", "e", "p", "o">>
HOME == <<"/", "h">>

NvimCommand == <<"n", "v", "i", "m", " ", ".">>
ZshCommand == <<"z", "s", "h">>
NpmInstallCommand == <<"n", "p", "m", " ", "i", "n", "s", "t", "a", "l", "l">>
EchoCommand == <<"e", "c", "h", "o", " ", "\"", "a", "\\", "\"">>
NpmInstallPattern == <<"n", "p", "m", " ", "i", "n", "s", "t", "a", "l", "l">>

AbsoluteDir == <<"/", "a">>
TildeDir == <<"~", "/", "a">>
RelativeDir == <<"a">>

GhosttyName == <<"G", "h", "o", "s", "t", "t", "y">>
GhosttyLower == <<"g", "h", "o", "s", "t", "t", "y">>
FinderName == <<"F", "i", "n", "d", "e", "r">>

\* String.prototype.startsWith
StartsWith(s, p) == Len(s) >= Len(p) /\ SubSeq(s, 1, Len(p)) = p

\* String.prototype.includes
Includes(s, p) ==
  \E k \in 0..(Len(s) - Len(p)) : SubSeq(s, k + 1, k + Len(p)) = p

\* String.prototype.toLowerCase, on the letters the application names use
LowerChar(c) ==
  CASE c = "G" -> "g"
    [] c = "F" -> "f"
    [] OTHER -> c

ToLowerCase(s) == [k \in 1..Len(s) |-> LowerChar(s[k])]

\* fullCommand.replace(/\\/g, "\\\\").replace(/"/g, '\\"')
RECURSIVE EscapeCommand(_)
EscapeCommand(s) ==
  IF s = <<>> THEN <<>>
  ELSE (CASE Head(s) = "\\" -> <<"\\", "\\">>
          [] Head(s) = "\"" -> <<"\\", "\"">>
          [] OTHER -> <<Head(s)>>) \o EscapeCommand(Tail(s))

\* What AppleScript's `keystroke "<text>"` types: the string literal with
\* its backslash escapes resolved.
RECURSIVE Keystrokes(_)
Keystrokes(s) ==
  IF s = <<>> THEN <<>>
  ELSE IF Head(s) = "\\" /\ Len(s) >= 2
       THEN <<s[2]>> \o Keystrokes(SubSeq(s, 3, Len(s)))
       ELSE <<Head(s)>> \o Keystrokes(Tail(s))

\* workingDirectory.replace(/^~/, process.env.HOME || "")
ExpandTilde(dir) ==
  IF StartsWith(dir, <<"~">>) THEN HOME \o Tail(dir) ELSE dir

\* the directory change written without its quotes
FullCommandUnquoted(command, workingDirectory) ==
  IF workingDirectory # Absent
  THEN <<"c", "d", " ">> \o ExpandTilde(workingDirectory)
       \o <<" ", "&", "&", " ">> \o command
  ELSE command

\* The text runCommand sends for a command and a working directory.
FullCommand(command, workingDirectory) ==
  IF workingDirectory # Absent
  THEN <<"c", "d", " ", "\"">> \o ExpandTilde(workingDirectory)
       \o <<"\"", " ", "&", "&", " ">> \o command
  ELSE command

\* a || b on strings
OrElse(a, b) == IF a # Absent THEN a ELSE b

-----------------------------------------------------------------------------
(* domain/paths.ts *)

\* path.join(a, b) for a directory a and a relative path b of one segment,
\* optionally written "./b"
Join(a, b) ==
  LET seg == IF StartsWith(b, <<".", "/">>) THEN SubSeq(b, 3, Len(b)) ELSE b
  IN  IF a # <<>> /\ a[Len(a)] = "/" THEN a \o seg ELSE a \o <<"/">> \o seg

expandHomePath(pathValue) ==
  IF ~StartsWith(pathValue, <<"~">>) THEN pathValue
  ELSE IF pathValue = <<"~">> THEN HOME
  ELSE IF StartsWith(pathValue, <<"~", "/">>)
       THEN Join(HOME, SubSeq(pathValue, 3, Len(pathValue)))
  ELSE pathValue

isAbsolute(p) == StartsWith(p, <<"/">>)

resolveWorkingDirectory(paneDirectory, root) ==
  IF paneDirectory = Absent
  THEN (IF root # Absent THEN expandHomePath(root) ELSE Absent)
  ELSE IF isAbsolute(paneDirectory) \/ StartsWith(paneDirectory, <<"~">>)
       THEN expandHomePath(paneDirectory)
  ELSE IF root # Absent THEN Join(expandHomePath(root), paneDirectory)
  ELSE paneDirectory

-----------------------------------------------------------------------------
(* types.ts: Pane and Split *)

Directions == {"vertical", "horizontal"}

Pane(command, workingDirectory) ==
  [command |-> command, workingDirectory |-> workingDirectory]

Split(direction, panes) == [direction |-> direction, panes |-> panes]

\* "command" in structure
IsPane(node) == "command" \in DOMAIN node

\* The panes the trees of the model are built from.
PaneCatalog ==
  << Pane(NvimCommand, Absent),
     Pane(ZshCommand, Absent),
     Pane(NpmInstallCommand, RelativeDir),
     Pane(EchoCommand, TildeDir),
     Pane(ZshCommand, AbsoluteDir) >>

\* The pane at pre-order leaf position k of a tree built from offset off.
CatalogPane(off, k) == PaneCatalog[((off + k) % Len(PaneCatalog)) + 1]

RECURSIVE LeafCount(_)
RECURSIVE LeafCountAll(_)
LeafCount(node) == IF IsPane(node) THEN 1 ELSE LeafCountAll(node.panes)
LeafCountAll(nodes) ==
  IF nodes = <<>> THEN 0 ELSE LeafCount(Head(nodes)) + LeafCountAll(Tail(nodes))

RECURSIVE NodeCount(_)
RECURSIVE NodeCountAll(_)
NodeCount(node) == IF IsPane(node) THEN 1 ELSE 1 + NodeCountAll(node.panes)
NodeCountAll(nodes) ==
  IF nodes = <<>> THEN 0 ELSE NodeCount(Head(nodes)) + NodeCountAll(Tail(nodes))

\* Every tree of exactly n nodes in which each Split has at least one child,
\* its leaves taken from the catalog starting at position k; and every
\* sequence of such trees with n nodes in all.
RECURSIVE TreesOfSize(_, _, _)
RECURSIVE ForestsOfSize(_, _, _)
TreesOfSize(n, off, k) ==
  IF n = 1 THEN {CatalogPane(off, k)}
  ELSE {Split(d, f) : d \in Directions, f \in ForestsOfSize(n - 1, off, k)}
ForestsOfSize(n, off, k) ==
  IF n = 0 THEN {<<>>}
  ELSE UNION { UNION { { <<t>> \o f : f \in ForestsOfSize(n - m, off, k + LeafCount(t)) }
                       : t \in TreesOfSize(m, off, k) }
               : m \in 1..n }

TreesUpTo(n) ==
  UNION { TreesOfSize(m, off, 0) : m \in 1..n, off \in 0..(Len(PaneCatalog) - 1) }

\* The trees of up to n nodes whose first leaf is the "npm install" pane, so
\* that both retry policies of runCommand occur among the first leaves.
TreesFromNpmInstall(n) == UNION { TreesOfSize(m, 2, 0) : m \in 1..n }

\* The node of the tree reached from node by the child indexes (0-based) of path.
RECURSIVE NodeAt(_, _)
NodeAt(node, path) ==
  IF path = <<>> THEN node ELSE NodeAt(node.panes[Head(path) + 1], Tail(path))

-----------------------------------------------------------------------------
(* The terminal as the engine assumes it: panes are rectangles; a split     *)
(* halves the focused pane and puts the new pane after it (right of it for  *)
(* Cmd+D, below it for Cmd+Shift+D) without moving focus; Cmd+arrow moves   *)
(* focus to the pane bordering the focused pane's top-left corner on that   *)
(* side, if there is one.                                                   *)

GridSize == 2 ^ (3 * MaxNodes)

Rect(x, y, w, h) == [x |-> x, y |-> y, w |-> w, h |-> h]

InitialTarget == [panes |-> <<Rect(0, 0, GridSize, GridSize)>>, focus |-> 1]

TargetSplit(t, modifier) ==
  LET r == t.panes[t.focus]
      right == modifier = <<"command down">>
      kept == IF right THEN Rect(r.x, r.y, r.w \div 2, r.h)
                       ELSE Rect(r.x, r.y, r.w, r.h \div 2)
      new == IF right THEN Rect(r.x + r.w \div 2, r.y, r.w - r.w \div 2, r.h)
                      ELSE Rect(r.x, r.y + r.h \div 2, r.w, r.h - r.h \div 2)
  IN  [t EXCEPT !.panes = Append([@ EXCEPT ![t.focus] = kept], new)]

Neighbour(t, keyCode) ==
  LET r == t.panes[t.focus]
      inRow(q) == q.y <= r.y /\ r.y < q.y + q.h
      inCol(q) == q.x <= r.x /\ r.x < q.x + q.w
  IN  { k \in 1..Len(t.panes) :
          LET q == t.panes[k] IN
          CASE keyCode = "124" -> q.x = r.x + r.w /\ inRow(q)
            [] keyCode = "123" -> q.x + q.w = r.x /\ inRow(q)
            [] keyCode = "125" -> q.y = r.y + r.h /\ inCol(q)
            [] keyCode = "126" -> q.y + q.h = r.y /\ inCol(q)
            [] OTHER -> FALSE }

TargetNavigate(t, keyCode) ==
  LET n == Neighbour(t, keyCode)
  IN  IF n = {} THEN t ELSE [t EXCEPT !.focus = CHOOSE k \in n : TRUE]

\* The effect on the terminal of a script that ran to its end.
Deliver(t, call) ==
  CASE call.kind = "split" -> TargetSplit(t, call.arg)
    [] call.kind = "navigate" -> TargetNavigate(t, call.arg)
    [] OTHER -> t

-----------------------------------------------------------------------------
(* The osascript child processes the engine starts *)

Call(kind, arg) == [kind |-> kind, arg |-> arg]

\* 'tell application "Ghostty" to activate'
ActivateCall == Call("activate", <<>>)
\* 'return name of first application process whose frontmost is true'
FrontmostCall == Call("frontmost", <<>>)

\* createSplit: keystroke "d" using {<modifier>}
SplitModifier(direction) ==
  IF direction = "horizontal" THEN <<"shift down, command down">>
  ELSE <<"command down">>

\* navigateToPane: keyCodes[direction]
KeyCode(direction) ==
  CASE direction = "left" -> "123"
    [] direction = "right" -> "124"
    [] direction = "up" -> "126"
    [] direction = "down" -> "125"

\* runCommand: keystroke "<escapedCommand>" followed by key code 36
CommandCall(command, workingDirectory) ==
  Call("command", EscapeCommand(FullCommand(command, workingDirectory)))

-----------------------------------------------------------------------------
(* ensureGhosttyFrontmost *)

FrontmostNames == {GhosttyName, GhosttyLower, FinderName}

\* What one run of ensureGhosttyFrontmost can meet: the activation fails or
\* not, the frontmost query, if it is made, fails or reports a name, and the
\* corrective activation, if it is made, fails or not.
FocusOutcomes ==
  {o \in [activateOk : BOOLEAN, queryOk : BOOLEAN,
          appName : FrontmostNames \cup {Absent}, retryOk : BOOLEAN] :
      /\ o.queryOk => o.activateOk
      /\ o.queryOk <=> o.appName # Absent
      /\ o.retryOk \/ (o.queryOk /\ ToLowerCase(o.appName) # GhosttyLower)}

\* a comparison of the name as it is reported
ensureGhosttyFrontmostCaseSensitive(o) ==
  <<ActivateCall>>
  \o (IF o.activateOk
      THEN <<FrontmostCall>>
           \o (IF o.queryOk /\ o.appName # GhosttyLower
               THEN <<ActivateCall>> ELSE <<>>)
      ELSE <<>>)

\* The calls of one run. A failure anywhere ends the run in the catch
\* block; retryOk tells whether the corrective activation, when there is
\* one, succeeds.
ensureGhosttyFrontmost(o) ==
  <<ActivateCall>>
  \o (IF o.activateOk
      THEN <<FrontmostCall>>
           \o (IF o.queryOk /\ ToLowerCase(o.appName) # GhosttyLower
               THEN <<ActivateCall>> ELSE <<>>)
      ELSE <<>>)

\* The context keys the engine passes to adaptiveDelay. A key is only ever
\* compared with another or tested for being empty, so it is kept whole.
FrontmostContext == "frontmost"
RetryFrontmostContext == "retry-frontmost"
SplitContext == "split"
NavigateContext == "navigate"
CommandContext == "command"
StructureStartContext == "structure-start"
PaneCommandContext == "pane-command"

DelayEntry(op, context) == [op |-> op, context |-> context]

\* await adaptiveDelay.wait(context); adaptiveDelay.recordSuccess(context)
WaitAndSuccess(context) ==
  <<DelayEntry("wait", context), DelayEntry("recordSuccess", context)>>

\* The calls one run of ensureGhosttyFrontmost makes on adaptiveDelay
\* (lines 444-445 and 458-459)
FocusDelays(o) ==
  IF ~o.activateOk THEN <<>>
  ELSE WaitAndSuccess(FrontmostContext)
       \o (IF o.queryOk /\ ToLowerCase(o.appName) # GhosttyLower /\ o.retryOk
           THEN WaitAndSuccess(RetryFrontmostContext) ELSE <<>>)

\* The outcome of a run in which nothing fails and the query answers
\* "Ghostty", the name the system has for the terminal. Every other outcome,
\* the same name in another case included, is one of the environment's faults.
Undisturbed(o) ==
  o.activateOk /\ o.queryOk /\ o.appName = GhosttyName

\* The focus check as part of an action: its calls are appended to the
\* calls cs; a disturbed run uses up one of the faults the environment has.
FocusAssurance(cs, o) ==
  /\ Undisturbed(o) \/ faults < faultLimit
  /\ (o.appName = GhosttyLower \/ ~o.retryOk) =>
        NodeCount(structure) <= MaxFocusNodes
  /\ calls' = cs \o ensureGhosttyFrontmost(o)
  /\ faults' = IF Undisturbed(o) THEN faults ELSE faults + 1

-----------------------------------------------------------------------------
(* Errors *)

NoError == [name |-> "none"]

\* what execAsync rejects with
ExecError == [name |-> "Error"]

\* new TimeoutError(message, timeoutMs)
TimeoutError(message, timeoutMs) ==
  [name |-> "TimeoutError", message |-> message, timeoutMs |-> timeoutMs]

\* new ScriptExecutionError(message, originalError, undefined, retryCount);
\* retries is not a field of the error: it is the number of retries
\* withRetry had made when it gave up.
ScriptExecutionError(originalError, retryCount, retries) ==
  [name |-> "ScriptExecutionError", originalError |-> originalError,
   retryCount |-> retryCount, retries |-> retries]

-----------------------------------------------------------------------------
(* withRetry, withTimeout and the options the primitives pass them *)

\* runCommand's shouldRetry
shouldRetryCommandWhatever(err, command) == err.name # "none"

shouldRetryCommand(err, command) ==
  ~(err.name = "TimeoutError" /\ Includes(command, NpmInstallPattern))

\* createSplit passes no shouldRetry: the default () => true
shouldRetryDefault(err, command) == TRUE

\* one attempt more before giving up
GivesUpOneLate(attempt, maxRetries, retryAllowed) ==
  attempt = maxRetries + 1 \/ ~retryAllowed

\* giving up only when the attempts are used up
GivesUpWhenExhausted(attempt, maxRetries, retryAllowed) ==
  attempt = maxRetries

\* withRetry's catch block: whether the error of attempt is thrown on
GivesUp(attempt, maxRetries, retryAllowed) ==
  attempt = maxRetries \/ ~retryAllowed

SplitMaxRetries == 2
CommandMaxRetries == 2
SplitTimeoutMs == 5000
CommandTimeoutMs == 10000

\* line 274: "Split creation timed out"
SplitTimeoutMessage ==
  <<"S", "p", "l", "i", "t", " ", "c", "r", "e", "a", "t", "i", "o", "n",
    " ", "t", "i", "m", "e", "d", " ", "o", "u", "t">>

\* line 344: "Command execution timed out"
CommandTimeoutMessage ==
  <<"C", "o", "m", "m", "a", "n", "d", " ", "e", "x", "e", "c", "u", "t",
    "i", "o", "n", " ", "t", "i", "m", "e", "d", " ", "o", "u", "t">>

\* String(n) for a natural number n
RECURSIVE NumberToString(_)
NumberToString(n) ==
  LET digit == <<"0", "1", "2", "3", "4", "5", "6", "7", "8", "9">>[(n % 10) + 1]
  IN  IF n < 10 THEN <<digit>> ELSE NumberToString(n \div 10) \o <<digit>>

\* withTimeout, lines 549-551:
\* errorMessage || `Operation timed out after ${timeoutMs}ms`
TimeoutText(errorMessage, timeoutMs) ==
  IF errorMessage # Absent THEN errorMessage
  ELSE <<"O", "p", "e", "r", "a", "t", "i", "o", "n", " ", "t", "i", "m", "e",
         "d", " ", "o", "u", "t", " ", "a", "f", "t", "e", "r", " ">>
       \o NumberToString(timeoutMs) \o <<"m", "s">>
SplitRetryCount == 2
CommandRetryCount == 2

-----------------------------------------------------------------------------
(* State of a run *)

NoPrim == [kind |-> "none"]

\* the step just taken was not a run of ensureGhosttyFrontmost
NoFocusRun == [activateOk |-> FALSE]

\* no withRetry call is being made on its own
NoRetry == [pc |-> "none"]
NoTimer == [state |-> "none"]
RetryAbsent == retry = NoRetry /\ timer = NoTimer /\ retryLog = <<>>

\* no CircuitBreaker has been constructed
NoBreaker == [state |-> "none"]
NothingObserved == [event |-> "none"]
BreakerAbsent ==
  breaker = NoBreaker /\ now = 0 /\ inFlight = 0 /\ observed = NothingObserved

\* no ContextualDelay is exercised on its own
NoDelay == [contextMap |-> <<>>]
NoDelayCall == [op |-> "none"]
DelayAbsent == delay = NoDelay /\ sleeping = <<>> /\ delayCall = NoDelayCall

\* a service that is not exercised
NoService == [pc |-> "none"]
SchemaAbsent == schema = NoService
RecentAbsent == recent = NoService
LastUsedAbsent == lastUsed = NoService
LibraryAbsent == library = NoService
QueueAbsent == queue = NoService
ServicesAbsent ==
  SchemaAbsent /\ RecentAbsent /\ LastUsedAbsent /\ LibraryAbsent /\ QueueAbsent

\* An activation record of createLayoutStructure: the node it executes (by
\* its path from the root), its useCurrentTab argument, where it stands
\* (pc, and the loop variable i), and the pane focused when it was called.
Frame(path, currentTab, focus) ==
  [path |-> path, useCurrentTab |-> currentTab, pc |-> "start", i |-> 0,
   focus |-> focus]

\* An invocation of a primitive by the activation record of node owner, for
\* its child number child (0-based).
Invocation(kind, arg, dir, owner, child) ==
  [kind |-> kind, arg |-> arg, dir |-> dir, owner |-> owner, child |-> child]

RootDirectories == {Repo, Absent}

\* A run is either any tree of up to MaxNodes nodes, with or without a root
\* directory and with either value of useCurrentTab, in an environment that
\* disturbs nothing; or a tree of up to MaxFaultNodes nodes, its first leaf
\* running "npm install", launched as
\* layout-launcher.ts does for a new tab or window, in an environment that
\* may disturb up to MaxFaults calls.
Init ==
  /\ \/ /\ structure \in TreesUpTo(MaxNodes)
        /\ faultLimit = 0
        /\ rootDirectory \in RootDirectories
        /\ useCurrentTab \in BOOLEAN
     \/ /\ structure \in TreesFromNpmInstall(MaxFaultNodes)
        /\ faultLimit = MaxFaults
        /\ rootDirectory = Repo
        /\ useCurrentTab = FALSE
  /\ faults = 0
  /\ stack = <<Frame(<<>>, useCurrentTab, 1)>>
  /\ prim = NoPrim
  /\ error = NoError
  /\ status = "running"
  /\ calls = <<>>
  /\ prims = <<>>
  /\ running = {}
  /\ target = InitialTarget
  /\ delayLog = <<>>
  /\ focusRun = NoFocusRun
  /\ RetryAbsent
  /\ BreakerAbsent
  /\ DelayAbsent
  /\ ServicesAbsent

Top == stack[Len(stack)]
TopNode == NodeAt(structure, Top.path)
SetTop(f) == [stack EXCEPT ![Len(stack)] = f]
Pop(stk) == SubSeq(stk, 1, Len(stk) - 1)

\* createLayoutStructure is at a statement of its own: no primitive is
\* being awaited and no exception is travelling.
Idle ==
  /\ status = "running"
  /\ stack # <<>>
  /\ prim = NoPrim
  /\ error = NoError

\* a focus check without its try block: a failed call raises
FocusErrorUncaught(o) ==
  IF /\ o.activateOk
     /\ o.queryOk
     /\ (ToLowerCase(o.appName) = GhosttyLower \/ o.retryOk)
  THEN NoError ELSE ExecError

\* lines 439 and 461-463: what leaves ensureGhosttyFrontmost when one of its
\* calls fails; the catch block is empty
FocusError(o) == NoError

\* A primitive is called: it is recorded, runs its focus check and has its
\* script ready for execAsync.
Invoke(entry, call, command, o) ==
  /\ prims' = Append(prims, entry)
  /\ FocusAssurance(calls, o)
  /\ focusRun' = o
  /\ delayLog' = delayLog \o FocusDelays(o)
  /\ error' = FocusError(o)
  /\ prim' = IF FocusError(o) = NoError
             THEN [kind |-> entry.kind, call |-> call, command |-> command,
                   attempt |-> 0, phase |-> "exec", awaiting |-> 0,
                   disturbed |-> FALSE]
             ELSE NoPrim

createSplit(direction, owner, child, o) ==
  Invoke(Invocation("createSplit", direction, Absent, owner, child),
         Call("split", SplitModifier(direction)), <<>>, o)

navigateToPane(direction, owner, child, o) ==
  Invoke(Invocation("navigateToPane", direction, Absent, owner, child),
         Call("navigate", KeyCode(direction)), <<>>, o)

runCommand(command, workingDirectory, owner, child, o) ==
  Invoke(Invocation("runCommand", command, workingDirectory, owner, child),
         CommandCall(command, workingDirectory), command, o)

-----------------------------------------------------------------------------
(* createLayoutStructure *)

\* a split before every child, whatever useCurrentTab says
NeedsSplitAlways(i, currentTab) == i >= 0

\* no split before the second child
NeedsSplitAfterSecond(i, currentTab) == i > 1

\* the outer test of line 403 alone: the first child of a new tab gets a split
NeedsSplitUnlessCurrentTab(i, currentTab) == i > 0 \/ ~currentTab

\* line 403-404: whether a split is created before child i
NeedsSplit(i, currentTab) == (i > 0 \/ ~currentTab) /\ i > 0

\* forward navigation with the two directions exchanged
ForwardDirectionExchanged(direction) ==
  IF direction = "vertical" THEN "down" ELSE "right"

\* lines 408-412: the direction towards the new pane
ForwardDirection(direction) ==
  IF direction = "vertical" THEN "right" ELSE "down"

\* back-navigation that repeats the forward direction
BackDirectionForward(direction) ==
  IF direction = "vertical" THEN "right" ELSE "down"

\* back-navigation along the other axis
BackDirectionOtherAxis(direction) ==
  IF direction = "vertical" THEN "up" ELSE "left"

\* lines 429-433: the direction back to the first pane
BackDirection(direction) ==
  IF direction = "vertical" THEN "left" ELSE "up"

\* line 428: the first value of the back-navigation loop variable
FirstBackIndex == 1

\* The directory handed to runCommand for a pane (lines 393 and 423).
PaneDirectory(pane, root) == OrElse(pane.workingDirectory, root)

\* lines 385-399: focus check, then the branch on the kind of node
StructureStart ==
  /\ Idle
  /\ Top.pc = "start"
  /\ \E o \in FocusOutcomes :
       /\ FocusAssurance(calls, o)
       /\ focusRun' = o
       /\ error' = FocusError(o)
       /\ delayLog' = delayLog \o FocusDelays(o)
                         \o (IF FocusError(o) = NoError
                             THEN WaitAndSuccess(StructureStartContext)
                             ELSE <<>>)
  /\ stack' = SetTop([Top EXCEPT !.pc = IF IsPane(TopNode) THEN "pane" ELSE "loop"])
  /\ UNCHANGED <<input, standalone, prim, status, prims, running, target>>

\* lines 391-394: the structure is a pane
RunPane ==
  /\ Idle
  /\ Top.pc = "pane"
  /\ \E o \in FocusOutcomes :
       runCommand(TopNode.command, PaneDirectory(TopNode, rootDirectory),
                  Top.path, 0, o)
  /\ stack' = SetTop([Top EXCEPT !.pc = "ret"])
  /\ UNCHANGED <<input, standalone, status, running, target>>

\* lines 401-405: a child that gets a pane of its own
LoopSplit ==
  /\ Idle
  /\ Top.pc = "loop"
  /\ Top.i < Len(TopNode.panes)
  /\ NeedsSplit(Top.i, Top.useCurrentTab)
  /\ \E o \in FocusOutcomes : createSplit(TopNode.direction, Top.path, Top.i, o)
  /\ stack' = SetTop([Top EXCEPT !.pc = "navigate"])
  /\ UNCHANGED <<input, standalone, status, running, target>>

\* lines 401-414: a child that runs in the pane already focused
LoopNoSplit ==
  /\ Idle
  /\ Top.pc = "loop"
  /\ Top.i < Len(TopNode.panes)
  /\ ~NeedsSplit(Top.i, Top.useCurrentTab)
  /\ stack' = SetTop([Top EXCEPT !.pc = "child"])
  /\ focusRun' = NoFocusRun
  /\ UNCHANGED <<input, standalone, delayLog, prim, error, status, calls, prims,
                 running, target, faults>>

\* lines 407-412: focus the pane the split created
NavigateToNew ==
  /\ Idle
  /\ Top.pc = "navigate"
  /\ \E o \in FocusOutcomes :
       navigateToPane(ForwardDirection(TopNode.direction), Top.path, Top.i, o)
  /\ stack' = SetTop([Top EXCEPT !.pc = "child"])
  /\ UNCHANGED <<input, standalone, status, running, target>>

\* lines 416-424, a simple pane; the loop variable moves on when it returns
RunChildPane ==
  /\ Idle
  /\ Top.pc = "child"
  /\ LET pane == TopNode.panes[Top.i + 1] IN
     /\ IsPane(pane)
     /\ \E o \in FocusOutcomes :
          runCommand(pane.command, PaneDirectory(pane, rootDirectory),
                     Top.path, Top.i, o)
  /\ stack' = SetTop([Top EXCEPT !.pc = "loop", !.i = @ + 1])
  /\ UNCHANGED <<input, standalone, status, running, target>>

\* lines 418-420, a nested split: createLayoutStructure(pane, rootDirectory, false)
EnterChildSplit ==
  /\ Idle
  /\ Top.pc = "child"
  /\ ~IsPane(TopNode.panes[Top.i + 1])
  /\ stack' = Append(SetTop([Top EXCEPT !.pc = "loop", !.i = @ + 1]),
                     Frame(Append(Top.path, Top.i), FALSE, target.focus))
  /\ focusRun' = NoFocusRun
  /\ UNCHANGED <<input, standalone, delayLog, prim, error, status, calls, prims,
                 running, target, faults>>

\* line 401 leaving the loop, line 428 entering the next
LoopEnd ==
  /\ Idle
  /\ Top.pc = "loop"
  /\ Top.i >= Len(TopNode.panes)
  /\ stack' = SetTop([Top EXCEPT !.pc = "back", !.i = FirstBackIndex])
  /\ focusRun' = NoFocusRun
  /\ UNCHANGED <<input, standalone, delayLog, prim, error, status, calls, prims,
                 running, target, faults>>

\* lines 428-434: one step back towards the first pane
NavigateBack ==
  /\ Idle
  /\ Top.pc = "back"
  /\ Top.i < Len(TopNode.panes)
  /\ \E o \in FocusOutcomes :
       navigateToPane(BackDirection(TopNode.direction), Top.path, Top.i, o)
  /\ stack' = SetTop([Top EXCEPT !.i = @ + 1])
  /\ UNCHANGED <<input, standalone, status, running, target>>

\* line 428 leaving the loop
BackEnd ==
  /\ Idle
  /\ Top.pc = "back"
  /\ Top.i >= Len(TopNode.panes)
  /\ stack' = SetTop([Top EXCEPT !.pc = "ret"])
  /\ focusRun' = NoFocusRun
  /\ UNCHANGED <<input, standalone, delayLog, prim, error, status, calls, prims,
                 running, target, faults>>

\* the promise of createLayoutStructure resolves
Return ==
  /\ Idle
  /\ Top.pc = "ret"
  /\ stack' = Pop(stack)
  /\ status' = IF Len(stack) = 1 THEN "done" ELSE "running"
  /\ focusRun' = NoFocusRun
  /\ UNCHANGED <<input, standalone, delayLog, prim, error, calls, prims, running,
                 target, faults>>

-----------------------------------------------------------------------------
(* The script of a primitive: execAsync under withTimeout and withRetry *)

Awaiting ==
  /\ status = "running"
  /\ prim # NoPrim
  /\ prim.phase = "await"

\* every primitive under withTimeout and withRetry
WrappedEvery(kind) == kind \in {"createSplit", "navigateToPane", "runCommand"}

\* createSplit and runCommand wrap execAsync in withTimeout and withRetry;
\* navigateToPane awaits execAsync bare.
Wrapped(kind) == kind \in {"createSplit", "runCommand"}

MaxRetries(kind) ==
  IF kind = "createSplit" THEN SplitMaxRetries ELSE CommandMaxRetries

TimeoutMs(kind) ==
  IF kind = "createSplit" THEN SplitTimeoutMs ELSE CommandTimeoutMs

TimeoutMessage(kind) ==
  IF kind = "createSplit" THEN SplitTimeoutMessage ELSE CommandTimeoutMessage

ShouldRetry(kind, err, command) ==
  IF kind = "runCommand" THEN shouldRetryCommand(err, command)
  ELSE shouldRetryDefault(err, command)

\* The retryCount the catch blocks of createSplit and runCommand pass to
\* ScriptExecutionError.
RetryCount(kind, attempt) ==
  IF kind = "createSplit" THEN SplitRetryCount ELSE CommandRetryCount

\* What leaves a primitive whose script failed for good with err, after
\* attempt retries: createSplit and runCommand catch and wrap,
\* navigateToPane has no try block.
Thrown(kind, err, attempt) ==
  IF Wrapped(kind)
  THEN ScriptExecutionError(err, RetryCount(kind, attempt), attempt)
  ELSE err

\* Whether the script is started again after a rejection with err.
Retries(kind, err, command, attempt) ==
  Wrapped(kind) /\ ~GivesUp(attempt, MaxRetries(kind), ShouldRetry(kind, err, command))

\* The context of the wait that follows the script of a primitive (lines
\* 285, 314, 365) and of the recordFailure of its onRetry (lines 280, 350)
DelayContext(kind) ==
  CASE kind = "createSplit" -> SplitContext
    [] kind = "navigateToPane" -> NavigateContext
    [] kind = "runCommand" -> CommandContext

\* execAsync(script): the child process starts
ExecStart ==
  /\ status = "running"
  /\ prim # NoPrim
  /\ prim.phase = "exec"
  /\ calls' = Append(calls, prim.call)
  /\ running' = running \cup {Len(calls) + 1}
  /\ prim' = [prim EXCEPT !.phase = "await", !.awaiting = Len(calls) + 1]
  /\ focusRun' = NoFocusRun
  /\ UNCHANGED <<input, standalone, delayLog, stack, error, status, prims, target, faults>>

\* the child process exits with 0: the primitive returns
ExecResolve ==
  /\ Awaiting
  /\ target' = Deliver(target, prim.call)
  /\ running' = running \ {prim.awaiting}
  /\ prim' = NoPrim
  /\ delayLog' = delayLog \o WaitAndSuccess(DelayContext(prim.kind))
                    \o (IF IsPane(structure)
                        THEN WaitAndSuccess(PaneCommandContext) ELSE <<>>)
  /\ focusRun' = NoFocusRun
  /\ UNCHANGED <<input, standalone, stack, error, status, calls, prims, faults>>

\* The attempt of the primitive ended with err: retry, or leave the primitive.
\* The environment spends one of its faults on the first script of a
\* primitive that fails and on every script that hangs, except, in a tree
\* of up to MaxFocusNodes nodes, a retry that hangs while no other script
\* is still running.
Rejected(err, hangs) ==
  /\ IF \/ ~prim.disturbed
        \/ hangs /\ running # {prim.awaiting}
        \/ hangs /\ NodeCount(structure) > MaxFocusNodes
     THEN faults < faultLimit /\ faults' = faults + 1
     ELSE faults' = faults
  /\ IF Retries(prim.kind, err, prim.command, prim.attempt)
     THEN /\ prim' = [prim EXCEPT !.attempt = @ + 1, !.phase = "exec",
                                  !.disturbed = TRUE]
          /\ error' = error
          /\ delayLog' = Append(delayLog,
                             DelayEntry("recordFailure", DelayContext(prim.kind)))
     ELSE /\ prim' = NoPrim
          /\ error' = Thrown(prim.kind, err, prim.attempt)
          /\ delayLog' = delayLog

\* the child process exits with an error, having typed nothing
ExecReject ==
  /\ Awaiting
  /\ running' = running \ {prim.awaiting}
  /\ Rejected(ExecError, FALSE)
  /\ focusRun' = NoFocusRun
  /\ UNCHANGED <<input, standalone, stack, status, calls, prims, target>>

\* withTimeout's timer fires first; nothing ends the child process
ExecTimeout ==
  /\ Awaiting
  /\ Wrapped(prim.kind)
  /\ Rejected(TimeoutError(TimeoutText(TimeoutMessage(prim.kind),
                                       TimeoutMs(prim.kind)),
                           TimeoutMs(prim.kind)), TRUE)
  /\ focusRun' = NoFocusRun
  /\ UNCHANGED <<input, standalone, stack, status, calls, prims, running, target>>

\* the child process of a bare `await execAsync(...)` never exits:
\* navigateToPane (line 311) waits for it without a timer
ExecHang ==
  /\ Awaiting
  /\ ~Wrapped(prim.kind)
  /\ faults < faultLimit
  /\ faults' = faults + 1
  /\ prim' = [prim EXCEPT !.phase = "hung"]
  /\ focusRun' = NoFocusRun
  /\ UNCHANGED <<input, standalone, delayLog, stack, error, status, calls, prims,
                 running, target>>

\* Whether the next statement of createLayoutStructure is a call of
\* ensureGhosttyFrontmost, its own (line 385) or that of a primitive.
AtFocusCheck ==
  /\ Idle
  /\ \/ Top.pc \in {"start", "pane", "navigate"}
     \/ /\ Top.pc = "loop"
        /\ Top.i < Len(TopNode.panes)
        /\ NeedsSplit(Top.i, Top.useCurrentTab)
     \/ Top.pc = "child" /\ IsPane(TopNode.panes[Top.i + 1])
     \/ Top.pc = "back" /\ Top.i < Len(TopNode.panes)

\* the child process of one of the bare `await execAsync(...)` of
\* ensureGhosttyFrontmost (lines 441 and 448) never exits: the calls made
\* so far are the activation, or the activation and the frontmost query
\* after it
FocusCheckHangs ==
  /\ AtFocusCheck
  /\ faults < faultLimit
  /\ faults' = faults + 1
  /\ \E made \in {<<ActivateCall>>, <<ActivateCall, FrontmostCall>>} :
       /\ calls' = calls \o made
       /\ running' = running \cup {Len(calls) + Len(made)}
       /\ prim' = [kind |-> "ensureGhosttyFrontmost", call |-> made[Len(made)],
                   command |-> <<>>, attempt |-> 0, phase |-> "hung",
                   awaiting |-> Len(calls) + Len(made), disturbed |-> TRUE]
       /\ delayLog' = delayLog \o (IF Len(made) = 2
                                    THEN WaitAndSuccess(FrontmostContext)
                                    ELSE <<>>)
  /\ focusRun' = NoFocusRun
  /\ UNCHANGED <<input, standalone, stack, error, status, prims, target>>

\* a child process nobody awaits any more exits, having done its work or not
LateExit ==
  /\ \E id \in running :
       /\ ~(prim # NoPrim /\ prim.phase \in {"await", "hung"} /\ prim.awaiting = id)
       /\ running' = running \ {id}
       /\ \E delivered \in BOOLEAN :
            target' = IF delivered THEN Deliver(target, calls[id]) ELSE target
  /\ focusRun' = NoFocusRun
  /\ UNCHANGED <<input, standalone, delayLog, stack, prim, error, status, calls, prims, faults>>

\* an activation record that catches the exception of a nested record
UnwindCaught(stk, err) ==
  [stack |-> Pop(stk), error |-> IF Len(stk) > 1 THEN NoError ELSE err]

\* What an exception leaves of the activation records: no record has a try
\* block, so the innermost one ends and the exception goes on to its caller.
Unwind(stk, err) == [stack |-> Pop(stk), error |-> err]

\* an await of createLayoutStructure throws
Rethrow ==
  /\ status = "running"
  /\ error # NoError
  /\ stack # <<>>
  /\ stack' = Unwind(stack, error).stack
  /\ error' = Unwind(stack, error).error
  /\ status' = IF stack' = <<>> /\ error' # NoError THEN "failed" ELSE "running"
  /\ focusRun' = NoFocusRun
  /\ UNCHANGED <<input, standalone, delayLog, prim, calls, prims, running, target, faults>>

Next ==
  \/ StructureStart
  \/ RunPane
  \/ LoopSplit
  \/ LoopNoSplit
  \/ NavigateToNew
  \/ RunChildPane
  \/ EnterChildSplit
  \/ LoopEnd
  \/ NavigateBack
  \/ BackEnd
  \/ Return
  \/ ExecStart
  \/ ExecResolve
  \/ ExecReject
  \/ ExecTimeout
  \/ ExecHang
  \/ FocusCheckHangs
  \/ LateExit
  \/ Rethrow

Spec == Init /\ [][Next]_vars

\* What the event loop guarantees: a continuation that is ready runs, a
\* timer that is due fires, and a child process exits unless it is one that
\* never does (ExecHang, FocusCheckHangs). Nothing guarantees when a
\* process whose promise was abandoned exits (LateExit).
Progress ==
  \/ StructureStart
  \/ RunPane
  \/ LoopSplit
  \/ LoopNoSplit
  \/ NavigateToNew
  \/ RunChildPane
  \/ EnterChildSplit
  \/ LoopEnd
  \/ NavigateBack
  \/ BackEnd
  \/ Return
  \/ ExecStart
  \/ ExecResolve
  \/ ExecReject
  \/ ExecTimeout
  \/ ExecHang
  \/ FocusCheckHangs
  \/ Rethrow

FairSpec == Init /\ [][Next]_vars /\ WF_vars(Progress)

-----------------------------------------------------------------------------
(* withRetry(fn, options) called on its own, fn being an operation that     *)
(* resolves or rejects, bare or under withTimeout(operation, timeoutMs,     *)
(* errorMessage)                                                            *)

\* largest maxRetries option tried
MaxRetriesOption == 3

RetryDelays == {500, 1000}
Timeouts == {500, 5000}

\* shouldRetry: absent (the default () => true), one that refuses every
\* error, one that refuses timeouts as runCommand's does
ShouldRetryOptions == {"default", "never", "unlessTimeout"}

shouldRetryOption(option, err) ==
  CASE option = "default" -> TRUE
    [] option = "never" -> FALSE
    [] option = "unlessTimeout" -> err.name # "TimeoutError"

\* what the operation rejects with
OperationError == [name |-> "Error"]

\* How a promise settled; of is the invocation of fn it belongs to, which
\* tells the objects of different invocations apart.
NoOutcome == [settled |-> "pending"]
Resolved(n) == [settled |-> "resolved", value |-> n, of |-> n]
RejectedWith(err, n) == [settled |-> "rejected", error |-> err, of |-> n]

\* The layout engine is not running.
EngineAbsent ==
  /\ structure = Pane(ZshCommand, Absent)
  /\ rootDirectory = Absent
  /\ useCurrentTab = FALSE
  /\ stack = <<>>
  /\ prim = NoPrim
  /\ error = NoError
  /\ status = "none"
  /\ calls = <<>>
  /\ prims = <<>>
  /\ running = {}
  /\ target = InitialTarget
  /\ faultLimit = 0
  /\ faults = 0
  /\ delayLog = <<>>
  /\ focusRun = NoFocusRun

RetryInit ==
  /\ EngineAbsent
  /\ BreakerAbsent
  /\ DelayAbsent
  /\ ServicesAbsent
  /\ retry \in [pc : {"call"},
                maxRetries : 0..MaxRetriesOption,
                retryDelay : RetryDelays,
                exponentialBackoff : BOOLEAN,
                onRetry : BOOLEAN,
                shouldRetry : ShouldRetryOptions,
                useTimeout : BOOLEAN,
                timeoutMs : Timeouts,
                errorMessage : {Absent, SplitTimeoutMessage},
                attempt : {0},
                lastError : {NoError},
                fnResult : {NoOutcome},
                abandoned : {0},
                result : {NoOutcome}]
  /\ ~retry.useTimeout =>
       retry.timeoutMs = 500 /\ retry.errorMessage = Absent
  /\ timer = NoTimer
  /\ retryLog = <<>>

\* how many times fn has been invoked
FnCalls == Len(SelectSeq(retryLog, LAMBDA e : e.op = "fn"))

\* a timer that is left as it is
clearTimeoutForgotten(t) == t

\* clearTimeout(timeoutHandle): a pending timer is cancelled, a timer that
\* has fired is left as it is
clearTimeout(t) ==
  IF t.state = "pending" THEN [t EXCEPT !.state = "cleared"] ELSE t

\* the wait is doubled from the first retry on
RetryWaitDoubledAtOnce(retryDelay, exponentialBackoff, attempt) ==
  IF exponentialBackoff THEN retryDelay * 2 ^ (attempt + 1) ELSE retryDelay

\* lines 528-530: retryDelay * Math.pow(2, attempt), or retryDelay
RetryWait(retryDelay, exponentialBackoff, attempt) ==
  IF exponentialBackoff THEN retryDelay * 2 ^ attempt ELSE retryDelay

\* the index of the failed attempt as the number of the retry
OnRetryNumberOfAttempt(attempt) == attempt

\* line 525: onRetry(lastError, attempt + 1)
OnRetryNumber(attempt) == attempt + 1

\* line 516, fn(): the operation starts; withTimeout (546-555) sets its timer
InvokeFn ==
  /\ retry.pc = "call"
  /\ retryLog' = Append(retryLog, [op |-> "fn", n |-> FnCalls + 1])
  /\ timer' = IF retry.useTimeout
              THEN [state |-> "pending", timeoutMs |-> retry.timeoutMs]
              ELSE NoTimer
  /\ retry' = [retry EXCEPT !.pc = "await"]
  /\ UNCHANGED <<engineVars, serviceVars, breakerVars, delayVars>>

\* fn's promise settles with outcome, the timer having been dealt with
Settle(outcome) ==
  /\ retry' = [retry EXCEPT !.pc = "settled", !.fnResult = outcome]
  /\ retryLog' = Append(retryLog, [op |-> "settle", outcome |-> outcome])

\* the operation resolves first (withTimeout 558-560)
OperationResolves ==
  /\ retry.pc = "await"
  /\ timer' = clearTimeout(timer)
  /\ Settle(Resolved(FnCalls))
  /\ UNCHANGED <<engineVars, serviceVars, breakerVars, delayVars>>

\* the operation rejects first (withTimeout 561-564)
OperationRejects ==
  /\ retry.pc = "await"
  /\ timer' = clearTimeout(timer)
  /\ Settle(RejectedWith(OperationError, FnCalls))
  /\ UNCHANGED <<engineVars, serviceVars, breakerVars, delayVars>>

\* the timer fires first (withTimeout 547-554, then 561-564); the
\* operation is left pending
TimerFires ==
  /\ retry.pc = "await"
  /\ timer.state = "pending"
  /\ timer' = clearTimeout([timer EXCEPT !.state = "fired"])
  /\ retry' = [retry EXCEPT
                 !.pc = "settled",
                 !.abandoned = @ + 1,
                 !.fnResult =
                    RejectedWith(TimeoutError(TimeoutText(retry.errorMessage,
                                                          timer.timeoutMs),
                                              timer.timeoutMs), FnCalls)]
  /\ retryLog' = Append(retryLog, [op |-> "settle", outcome |-> retry'.fnResult])
  /\ UNCHANGED <<engineVars, serviceVars, breakerVars, delayVars>>

\* an operation whose withTimeout has already rejected settles: nobody
\* listens any more
AbandonedSettles ==
  /\ retry.pc # "none"
  /\ retry.abandoned > 0
  /\ retry' = [retry EXCEPT !.abandoned = @ - 1]
  /\ UNCHANGED <<engineVars, serviceVars, breakerVars, delayVars, timer, retryLog>>

\* line 516: return await fn()
Returns ==
  /\ retry.pc = "settled"
  /\ retry.fnResult.settled = "resolved"
  /\ retry' = [retry EXCEPT !.pc = "resolved", !.result = retry.fnResult]
  /\ UNCHANGED <<engineVars, serviceVars, breakerVars, delayVars, timer, retryLog>>

\* lines 517-532, the catch block up to the await of the delay
Caught ==
  /\ retry.pc = "settled"
  /\ retry.fnResult.settled = "rejected"
  /\ LET err == retry.fnResult.error IN
     IF GivesUp(retry.attempt, retry.maxRetries,
                shouldRetryOption(retry.shouldRetry, err))
     THEN /\ retry' = [retry EXCEPT !.pc = "rejected",
                                    !.lastError = err,
                                    !.result = retry.fnResult]
          /\ retryLog' = retryLog
     ELSE /\ retry' = [retry EXCEPT !.pc = "delay", !.lastError = err]
          /\ retryLog' =
               retryLog
               \o (IF retry.onRetry
                   THEN <<[op |-> "onRetry", error |-> retry.fnResult,
                           n |-> OnRetryNumber(retry.attempt)]>>
                   ELSE <<>>)
               \o <<[op |-> "wait",
                     ms |-> RetryWait(retry.retryDelay,
                                      retry.exponentialBackoff, retry.attempt)]>>
  /\ UNCHANGED <<engineVars, serviceVars, breakerVars, delayVars, timer>>

\* line 532 is over: the loop goes on with attempt + 1
DelayElapses ==
  /\ retry.pc = "delay"
  /\ retry' = [retry EXCEPT !.pc = "call", !.attempt = @ + 1]
  /\ UNCHANGED <<engineVars, serviceVars, breakerVars, delayVars, timer, retryLog>>

RetryNext ==
  \/ InvokeFn
  \/ OperationResolves
  \/ OperationRejects
  \/ TimerFires
  \/ AbandonedSettles
  \/ Returns
  \/ Caught
  \/ DelayElapses

RetrySpec == RetryInit /\ [][RetryNext]_vars

-----------------------------------------------------------------------------
(* CircuitBreaker: one breaker, its execute called by several callers whose *)
(* functions settle later, while time passes                                *)

\* largest options tried
MaxFailureThreshold == 3
MaxResetTimeout == 2
MaxHalfOpenAttempts == 2
\* how far Date.now() advances, in the unit of resetTimeout
MaxTime == 6
\* executions awaiting their function at the same time
MaxInFlight == 2

\* lines 581-583, the options a breaker gets when none are given
DefaultFailureThreshold == 5
DefaultResetTimeout == 60000
DefaultHalfOpenMaxAttempts == 3

\* option || fallback on numbers
OrDefault(option, fallback) == IF option # 0 THEN option ELSE fallback

\* lastFailureTime is 0 while undefined: Date.now() is positive and the code
\* tests the field with `!this.lastFailureTime`.
BreakerInit ==
  /\ EngineAbsent
  /\ RetryAbsent
  /\ DelayAbsent
  /\ ServicesAbsent
  /\ breaker \in [failureThreshold : 1..MaxFailureThreshold,
                  resetTimeout : 1..MaxResetTimeout,
                  halfOpenMaxAttempts : 1..MaxHalfOpenAttempts,
                  failures : {0},
                  lastFailureTime : {0},
                  state : {"closed"},
                  halfOpenAttempts : {0}]
  /\ now = 1
  /\ inFlight = 0
  /\ observed = [event |-> "constructed", sinceSuccess |-> 0,
                 halfOpenSuccesses |-> 0, failedAt |-> 0, reopened |-> FALSE]

\* a reset only when more than resetTimeout has elapsed
shouldAttemptResetLate(b, t) ==
  IF b.lastFailureTime = 0 THEN FALSE
  ELSE t - b.lastFailureTime > OrDefault(b.resetTimeout, DefaultResetTimeout)

\* lines 608-613
shouldAttemptReset(b, t) ==
  IF b.lastFailureTime = 0 THEN FALSE
  ELSE t - b.lastFailureTime >= OrDefault(b.resetTimeout, DefaultResetTimeout)

\* lines 638-643
reset(b) ==
  [b EXCEPT !.failures = 0, !.lastFailureTime = 0, !.state = "closed",
            !.halfOpenAttempts = 0]

\* a half-open breaker that closes at its first success
onSuccessClosesAtOnce(b) ==
  [(IF b.state = "half-open" THEN reset(b) ELSE b) EXCEPT !.failures = 0]

\* a success that clears the failure counter only when it closes the breaker
onSuccessKeepsFailures(b) ==
  LET counted == IF b.state = "half-open"
                 THEN [b EXCEPT !.halfOpenAttempts = @ + 1] ELSE b
  IN  IF /\ counted.state = "half-open"
         /\ counted.halfOpenAttempts
              >= OrDefault(b.halfOpenMaxAttempts, DefaultHalfOpenMaxAttempts)
      THEN reset(counted) ELSE counted

\* lines 615-623
onSuccess(b) ==
  LET counted == IF b.state = "half-open"
                 THEN [b EXCEPT !.halfOpenAttempts = @ + 1] ELSE b
      closed == IF /\ counted.state = "half-open"
                   /\ counted.halfOpenAttempts
                        >= OrDefault(b.halfOpenMaxAttempts, DefaultHalfOpenMaxAttempts)
                THEN reset(counted) ELSE counted
  IN  [closed EXCEPT !.failures = 0]

\* a breaker that opens one failure late
onFailureOpensLate(b, t) ==
  LET counted == [b EXCEPT !.failures = @ + 1, !.lastFailureTime = t]
  IN  IF \/ counted.failures > OrDefault(b.failureThreshold, DefaultFailureThreshold)
         \/ counted.state = "half-open"
      THEN [counted EXCEPT !.state = "open"] ELSE counted

\* a half-open breaker that opens only at the threshold
onFailureHalfOpenStays(b, t) ==
  LET counted == [b EXCEPT !.failures = @ + 1, !.lastFailureTime = t]
  IN  IF counted.failures >= OrDefault(b.failureThreshold, DefaultFailureThreshold)
      THEN [counted EXCEPT !.state = "open"] ELSE counted

\* lines 625-636, at time t
onFailure(b, t) ==
  LET counted == [b EXCEPT !.failures = @ + 1, !.lastFailureTime = t]
      opened == IF counted.failures
                     >= OrDefault(b.failureThreshold, DefaultFailureThreshold)
                THEN [counted EXCEPT !.state = "open"] ELSE counted
  IN  IF opened.state = "half-open" THEN [opened EXCEPT !.state = "open"]
      ELSE opened

\* lines 589-595: execute throws Error("Circuit breaker is open")
ExecuteRejected ==
  /\ breaker.state = "open"
  /\ ~shouldAttemptReset(breaker, now)
  /\ observed' = [observed EXCEPT !.event = "rejected"]
  /\ UNCHANGED <<engineVars, serviceVars, retryVars, delayVars, breaker, now, inFlight>>

\* lines 589-599: execute calls fn, from open by way of half-open
ExecuteInvokes ==
  /\ breaker.state \in {"closed", "open", "half-open"}
  /\ inFlight < MaxInFlight
  /\ breaker.state = "open" => shouldAttemptReset(breaker, now)
  /\ breaker' = IF breaker.state = "open"
                THEN [breaker EXCEPT !.state = "half-open", !.halfOpenAttempts = 0]
                ELSE breaker
  /\ inFlight' = inFlight + 1
  /\ observed' = [observed EXCEPT
                    !.event = "invoked",
                    !.halfOpenSuccesses =
                       IF breaker.state = "open" THEN 0 ELSE @]
  /\ UNCHANGED <<engineVars, serviceVars, retryVars, delayVars, now>>

\* lines 599-601: fn resolved
FnResolves ==
  /\ inFlight > 0
  /\ inFlight' = inFlight - 1
  /\ breaker' = onSuccess(breaker)
  /\ observed' = [observed EXCEPT
                    !.event = "success",
                    !.sinceSuccess = 0,
                    !.halfOpenSuccesses =
                       IF breaker.state = "half-open" THEN @ + 1 ELSE @]
  /\ UNCHANGED <<engineVars, serviceVars, retryVars, delayVars, now>>

\* lines 602-604: fn rejected
FnRejects ==
  /\ inFlight > 0
  /\ inFlight' = inFlight - 1
  /\ breaker' = onFailure(breaker, now)
  /\ observed' = [observed EXCEPT
                    !.event = "failure",
                    !.sinceSuccess = @ + 1,
                    !.failedAt = now,
                    !.reopened = breaker.state = "half-open"]
  /\ UNCHANGED <<engineVars, serviceVars, retryVars, delayVars, now>>

\* a caller resets the breaker
ResetCall ==
  /\ breaker.state \in {"closed", "open", "half-open"}
  /\ breaker' = reset(breaker)
  /\ observed' = [observed EXCEPT !.event = "reset", !.sinceSuccess = 0,
                                  !.reopened = FALSE]
  /\ UNCHANGED <<engineVars, serviceVars, retryVars, delayVars, now, inFlight>>

\* time passes
Tick ==
  /\ breaker # NoBreaker
  /\ now < MaxTime
  /\ now' = now + 1
  /\ observed' = [observed EXCEPT !.event = "tick"]
  /\ UNCHANGED <<engineVars, serviceVars, retryVars, delayVars, breaker, inFlight>>

BreakerNext ==
  \/ ExecuteRejected
  \/ ExecuteInvokes
  \/ FnResolves
  \/ FnRejects
  \/ ResetCall
  \/ Tick

BreakerSpec == BreakerInit /\ [][BreakerNext]_vars

-----------------------------------------------------------------------------
(* AdaptiveDelay and ContextualDelay (services/adaptive-delay): one          *)
(* ContextualDelay object on which callers make wait, recordSuccess,         *)
(* recordFailure and reset calls, with or without a context                  *)

\* calls made on the object in one run
MaxDelayCalls == 5
\* wait() calls whose timer is pending at the same time
MaxSleeping == 1

\* A delay is a number the code multiplies by 0.8 and 1.5: it is kept as a
\* fraction <<numerator, denominator>> in lowest terms.
RECURSIVE GCD(_, _)
GCD(a, b) == IF b = 0 THEN a ELSE GCD(b, a % b)

Fraction(n, d) == <<n \div GCD(n, d), d \div GCD(n, d)>>
Whole(n) == <<n, 1>>
Times(q, f) == Fraction(q[1] * f[1], q[2] * f[2])
Less(p, q) == p[1] * q[2] < q[1] * p[2]
AtMost(p, q) == ~Less(q, p)
MathMax(p, q) == IF Less(p, q) THEN q ELSE p
MathMin(p, q) == IF Less(q, p) THEN q ELSE p

\* Math.round of a non-negative fraction n/d
MathRound(n, d) == (2 * n + d) \div (2 * d)

\* line 45 and line 47: the factors 0.8 and 1.5
ShrinkFactor == <<4, 5>>
GrowthFactor == <<3, 2>>

\* line 9
maxHistorySize == 10

\* The constructor arguments tried: every min <= base <= max over the values
\* of the tests (100, 50, 1000), the arguments of utils.ts (200, 100, 1000),
\* and bounds close enough to base for a few signals to reach them.
DelayValues == {50, 100, 1000}
DelayConfigs ==
  {c \in [baseDelay : DelayValues, minDelay : DelayValues, maxDelay : DelayValues] :
      c.minDelay <= c.baseDelay /\ c.baseDelay <= c.maxDelay}
  \cup {[baseDelay |-> 200, minDelay |-> 100, maxDelay |-> 1000],
        [baseDelay |-> 100, minDelay |-> 90, maxDelay |-> 120]}

\* lines 2-20: new AdaptiveDelay(baseDelay, minDelay, maxDelay)
AdaptiveDelay(baseDelay, minDelay, maxDelay) ==
  [baseDelay |-> baseDelay, minDelay |-> minDelay, maxDelay |-> maxDelay,
   successCount |-> 0, failureCount |-> 0, currentDelay |-> Whole(baseDelay),
   delayHistory |-> <<>>]

\* the thresholds of the two branches exchanged
adjustDelayThresholdsExchanged(d) ==
  LET adjusted ==
        IF d.successCount >= 2
        THEN [d EXCEPT !.currentDelay =
                MathMax(Whole(d.minDelay), Times(@, ShrinkFactor))]
        ELSE IF d.failureCount >= 3
        THEN [d EXCEPT !.currentDelay =
                MathMin(Whole(d.maxDelay), Times(@, GrowthFactor))]
        ELSE d
      s == IF adjusted.successCount >= 5
           THEN [adjusted EXCEPT !.successCount = 3] ELSE adjusted
  IN  IF s.failureCount >= 5 THEN [s EXCEPT !.failureCount = 3] ELSE s

\* a shrink that is not held at minDelay
adjustDelayUnclamped(d) ==
  LET adjusted ==
        IF d.successCount >= 3
        THEN [d EXCEPT !.currentDelay = Times(@, ShrinkFactor)]
        ELSE IF d.failureCount >= 2
        THEN [d EXCEPT !.currentDelay =
                MathMin(Whole(d.maxDelay), Times(@, GrowthFactor))]
        ELSE d
      s == IF adjusted.successCount >= 5
           THEN [adjusted EXCEPT !.successCount = 3] ELSE adjusted
  IN  IF s.failureCount >= 5 THEN [s EXCEPT !.failureCount = 3] ELSE s

\* lines 43-56
adjustDelay(d) ==
  LET adjusted ==
        IF d.successCount >= 3
        THEN [d EXCEPT !.currentDelay =
                MathMax(Whole(d.minDelay), Times(@, ShrinkFactor))]
        ELSE IF d.failureCount >= 2
        THEN [d EXCEPT !.currentDelay =
                MathMin(Whole(d.maxDelay), Times(@, GrowthFactor))]
        ELSE d
      s == IF adjusted.successCount >= 5
           THEN [adjusted EXCEPT !.successCount = 3] ELSE adjusted
  IN  IF s.failureCount >= 5 THEN [s EXCEPT !.failureCount = 3] ELSE s

\* lines 31-35
recordSuccess(d) ==
  adjustDelay([d EXCEPT !.successCount = @ + 1,
                        !.failureCount = IF @ - 1 > 0 THEN @ - 1 ELSE 0])

\* lines 37-41
recordFailure(d) ==
  adjustDelay([d EXCEPT !.failureCount = @ + 1,
                        !.successCount = IF @ - 1 > 0 THEN @ - 1 ELSE 0])

\* lines 58-60
getCurrentDelay(d) == MathRound(d.currentDelay[1], d.currentDelay[2])

\* lines 25-28: the realized delay enters the history
pushDelay(d, realized) ==
  LET pushed == Append(d.delayHistory, realized)
  IN  [d EXCEPT !.delayHistory =
         IF Len(pushed) > maxHistorySize THEN Tail(pushed) ELSE pushed]

\* a reset that keeps the history
AdaptiveDelayResetKeepsHistory(d) ==
  [d EXCEPT !.currentDelay = Whole(d.baseDelay), !.successCount = 0,
            !.failureCount = 0]

\* lines 62-67, AdaptiveDelay.reset
AdaptiveDelayReset(d) ==
  [d EXCEPT !.currentDelay = Whole(d.baseDelay), !.successCount = 0,
            !.failureCount = 0, !.delayHistory = <<>>]

RECURSIVE Sum(_)
Sum(h) == IF h = <<>> THEN 0 ELSE Head(h) + Sum(Tail(h))

\* lines 69-73
getAverageDelay(d) ==
  IF Len(d.delayHistory) = 0 THEN d.baseDelay
  ELSE MathRound(Sum(d.delayHistory), Len(d.delayHistory))

\* Context arguments: none (undefined, which `!context` treats as ""), or a key
NoContext == ""
ContextKeys == {"a", "b"}
Contexts == {NoContext} \cup ContextKeys

\* contextMap.get(context) of a key that is not in the map
NoInstance == [baseDelay |-> 0]

DelayInit ==
  /\ EngineAbsent
  /\ RetryAbsent
  /\ BreakerAbsent
  /\ ServicesAbsent
  /\ \E c \in DelayConfigs :
       delay = [self |-> AdaptiveDelay(c.baseDelay, c.minDelay, c.maxDelay),
                contextMap |-> [k \in ContextKeys |-> NoInstance]]
  /\ sleeping = <<>>
  /\ delayCall = [op |-> "new", context |-> NoContext, n |-> 0]

\* contextMap.has(context)
Has(context) == delay.contextMap[context] # NoInstance

\* The instance a call with this context argument works on, if any
InstanceOf(obj, context) ==
  IF context = NoContext THEN obj.self ELSE obj.contextMap[context]

\* a map whose keys all lead to one instance
WithInstanceShared(obj, context, d) ==
  IF context = NoContext THEN [obj EXCEPT !.self = d]
  ELSE [obj EXCEPT !.contextMap =
          [k \in ContextKeys |-> IF @[k] = NoInstance /\ k # context
                                 THEN NoInstance ELSE d]]

\* The object with that instance replaced
WithInstance(obj, context, d) ==
  IF context = NoContext THEN [obj EXCEPT !.self = d]
  ELSE [obj EXCEPT !.contextMap[context] = d]

\* a call is made on the object
Called(op, context) ==
  /\ delay # NoDelay
  /\ delayCall.n < MaxDelayCalls
  /\ delayCall' = [op |-> op, context |-> context, n |-> delayCall.n + 1]

\* The AdaptiveDelay method a call of the ContextualDelay passes on
Method(op, d) ==
  CASE op = "recordSuccess" -> recordSuccess(d)
    [] op = "recordFailure" -> recordFailure(d)
    [] op = "reset" -> AdaptiveDelayReset(d)

\* lines 109-118, 120-129 and 131-136: without a context the object's own
\* fields, with one the instance of the map if there is one
Signal(obj, context, op) ==
  LET d == InstanceOf(obj, context)
  IN  IF d = NoInstance THEN obj ELSE WithInstance(obj, context, Method(op, d))

\* lines 93-106 and 22-24: wait(context) up to the setTimeout
WaitStarts(context) ==
  /\ Called("wait", context)
  /\ Len(sleeping) < MaxSleeping
  /\ LET created ==
           IF context # NoContext /\ ~Has(context)
           THEN WithInstance(delay, context,
                  AdaptiveDelay(delay.self.baseDelay, delay.self.minDelay,
                                delay.self.maxDelay))
           ELSE delay
     IN  /\ delay' = created
         /\ sleeping' = Append(sleeping,
              [context |-> context,
               delay |-> getCurrentDelay(InstanceOf(created, context)),
               inMap |-> TRUE])
  /\ UNCHANGED <<engineVars, serviceVars, retryVars, breakerVars>>

\* lines 24-28: the timer of a wait() fires; an instance that resetAll took
\* out of the map still gets its entry, where no one reads it
WaitEnds(i) ==
  /\ delay # NoDelay
  /\ i \in DOMAIN sleeping
  /\ delay' = IF sleeping[i].inMap
              THEN WithInstance(delay, sleeping[i].context,
                     pushDelay(InstanceOf(delay, sleeping[i].context),
                               sleeping[i].delay))
              ELSE delay
  /\ sleeping' = SubSeq(sleeping, 1, i - 1) \o SubSeq(sleeping, i + 1, Len(sleeping))
  /\ delayCall' = [delayCall EXCEPT !.op = "waited", !.context = sleeping[i].context]
  /\ UNCHANGED <<engineVars, serviceVars, retryVars, breakerVars>>

\* lines 109-118
RecordSuccess(context) ==
  /\ Called("recordSuccess", context)
  /\ delay' = Signal(delay, context, "recordSuccess")
  /\ UNCHANGED <<engineVars, serviceVars, retryVars, breakerVars, sleeping>>

\* lines 120-129
RecordFailure(context) ==
  /\ Called("recordFailure", context)
  /\ delay' = Signal(delay, context, "recordFailure")
  /\ UNCHANGED <<engineVars, serviceVars, retryVars, breakerVars, sleeping>>

\* lines 62-67, the inherited reset(), and lines 131-136, resetContext(context)
Reset(context) ==
  /\ Called("reset", context)
  /\ delay' = Signal(delay, context, "reset")
  /\ UNCHANGED <<engineVars, serviceVars, retryVars, breakerVars, sleeping>>

\* lines 138-142
ResetAll ==
  /\ Called("resetAll", NoContext)
  /\ delay' = [self |-> AdaptiveDelayReset(delay.self),
               contextMap |-> [k \in ContextKeys |-> NoInstance]]
  /\ sleeping' = [i \in DOMAIN sleeping |->
                    IF sleeping[i].context = NoContext THEN sleeping[i]
                    ELSE [sleeping[i] EXCEPT !.inMap = FALSE]]
  /\ UNCHANGED <<engineVars, serviceVars, retryVars, breakerVars>>

DelayNext ==
  \/ \E context \in Contexts : WaitStarts(context)
  \/ \E i \in 1..MaxSleeping + 1 : WaitEnds(i)
  \/ \E context \in Contexts : RecordSuccess(context)
  \/ \E context \in Contexts : RecordFailure(context)
  \/ \E context \in Contexts : Reset(context)
  \/ ResetAll

DelaySpec == DelayInit /\ [][DelayNext]_vars

-----------------------------------------------------------------------------
(* Views of a run used by the properties *)

IsPrefix(p, q) == Len(p) <= Len(q) /\ SubSeq(q, 1, Len(p)) = p

\* The invocations made by the activation record of the node at path.
OwnedBy(path) == SelectSeq(prims, LAMBDA e : e.owner = path)

\* The invocations made while the node at path was executed, by its own
\* activation record or those of the nodes below it.
Within(path) == SelectSeq(prims, LAMBDA e : IsPrefix(path, e.owner))

NavigationsOf(path) ==
  SelectSeq(prims, LAMBDA e : e.owner = path /\ e.kind = "navigateToPane")

Opposite(direction) ==
  CASE direction = "left" -> "right"
    [] direction = "right" -> "left"
    [] direction = "up" -> "down"
    [] direction = "down" -> "up"

\* The activation records that have finished their work without error and
\* are about to return, with the Split they executed.
Completed(f) ==
  /\ f.pc = "ret"
  /\ prim = NoPrim
  /\ error = NoError
  /\ ~IsPane(NodeAt(structure, f.path))

\* The pane a runCommand invocation was made for.
PaneOf(e) ==
  LET node == NodeAt(structure, e.owner)
  IN  IF IsPane(node) THEN node ELSE node.panes[e.child + 1]

\* What the terminal is asked to do by a call, in the words of the
\* automation contract: the keystrokes decoded.
Recorded(call) ==
  CASE call.kind = "activate" -> [op |-> "activate"]
    [] call.kind = "frontmost" -> [op |-> "getFrontmostAppName"]
    [] call.kind = "split" ->
         [op |-> "split",
          direction |-> IF call.arg = <<"command down">> THEN "vertical" ELSE "horizontal"]
    [] call.kind = "navigate" ->
         [op |-> "navigate",
          direction |-> CHOOSE d \in {"left", "right", "up", "down"} : KeyCode(d) = call.arg]
    [] call.kind = "command" ->
         [op |-> "sendText+enter", text |-> Keystrokes(call.arg)]

RecordedCalls == [k \in 1..Len(calls) |-> Recorded(calls[k])]

\* The calls other than those of the focus checks.
IsStep(call) == call.kind \in {"split", "navigate", "command"}
RecordedSteps == [k \in 1..Len(SelectSeq(calls, IsStep)) |-> Recorded(SelectSeq(calls, IsStep)[k])]

-----------------------------------------------------------------------------
(* C1 *)

\* C1: when the execution of a Split with children c0..cn has completed
\* without error, its activation record has issued exactly 2n navigations:
\* n before the children 1..n and n after the last child, the latter being
\* the last n invocations made within the Split and mirroring the former in
\* reverse order and opposite direction (net offset zero).
C1_NavigationRoundTrip ==
  \A k \in 1..Len(stack) :
    Completed(stack[k]) =>
      LET path == stack[k].path
          n == Len(NodeAt(structure, path).panes) - 1
          navs == NavigationsOf(path)
          all == Within(path)
      IN  /\ Len(navs) = 2 * n
          /\ \A j \in 1..n :
               /\ navs[2 * n + 1 - j].arg = Opposite(navs[j].arg)
               /\ all[Len(all) - n + j] = navs[n + j]
               /\ navs[j].child = j

\* C1 witness: a nested Split of three children has completed, after two
\* navigations forth and two back.
C1_Witness ==
  \E k \in 1..Len(stack) :
    /\ Completed(stack[k])
    /\ stack[k].path # <<>>
    /\ Len(NavigationsOf(stack[k].path)) = 4

-----------------------------------------------------------------------------
(* C2 *)

\* How many primitives of a kind the activation record of path has invoked.
CountOwned(path, kind) ==
  Len(SelectSeq(prims, LAMBDA e : e.owner = path /\ e.kind = kind))

\* C2: every createSplit is invoked for a child i > 0 with the direction of
\* its Split, and what is invoked next is navigateToPane by the same Split
\* for the same child, "right" for a vertical Split and "down" for a
\* horizontal one; no other navigation goes right or down; every other
\* navigation is "left" for a vertical Split and "up" for a horizontal one;
\* and a Split has invoked one createSplit for each child i > 0 it has
\* reached.
C2_SplitThenNavigate ==
  /\ \A k \in 1..Len(prims) :
       LET e == prims[k]
           direction == NodeAt(structure, e.owner).direction
           forward == IF direction = "vertical" THEN "right" ELSE "down"
           back == IF direction = "vertical" THEN "left" ELSE "up"
       IN  /\ e.kind = "createSplit" =>
                /\ e.child > 0
                /\ e.arg = direction
                /\ k < Len(prims) =>
                     /\ prims[k + 1].kind = "navigateToPane"
                     /\ prims[k + 1].owner = e.owner
                     /\ prims[k + 1].child = e.child
                     /\ prims[k + 1].arg = forward
           /\ e.kind = "navigateToPane" =>
                IF k > 1 /\ prims[k - 1].kind = "createSplit"
                THEN e.arg = forward
                ELSE e.arg = back
  /\ \A k \in 1..Len(stack) :
       LET f == stack[k] IN
       ~IsPane(NodeAt(structure, f.path)) =>
         /\ f.pc = "child" => CountOwned(f.path, "createSplit") = f.i
         /\ f.pc \in {"back", "ret"} =>
              CountOwned(f.path, "createSplit") = Len(NodeAt(structure, f.path).panes) - 1

\* C2 witness: a horizontal Split nested in a vertical one has created its
\* split and navigated down, and has navigated back up.
C2_Witness ==
  \E k \in 2..Len(prims) :
    /\ prims[k].owner # <<>>
    /\ prims[k].arg = "up"
    /\ NodeAt(structure, <<>>).direction = "vertical"
    /\ \E j \in 2..k : prims[j].arg = "down" /\ prims[j - 1].kind = "createSplit"
                       /\ prims[j].owner = prims[k].owner

-----------------------------------------------------------------------------
(* C3 *)

C3Tree == Split("vertical", <<Pane(NvimCommand, Absent), Pane(ZshCommand, Absent)>>)

CdRepoNvim ==
  <<"c", "d", " ", "\"", "/", "r", "e", "p", "o", "\"", " ", "&", "&", " ",
    "n", "v", "i", "m", " ", ".">>

CdRepoZsh ==
  <<"c", "d", " ", "\"", "/", "r", "e", "p", "o", "\"", " ", "&", "&", " ",
    "z", "s", "h">>

\* The run of C3: that tree with root /repo has been executed to the end
\* and no call failed or found another application frontmost.
C3Run ==
  /\ structure = C3Tree
  /\ rootDirectory = Repo
  /\ status = "done"
  /\ faults = 0

C3Steps ==
  << [op |-> "sendText+enter", text |-> CdRepoNvim],
     [op |-> "split", direction |-> "vertical"],
     [op |-> "navigate", direction |-> "right"],
     [op |-> "sendText+enter", text |-> CdRepoZsh],
     [op |-> "navigate", direction |-> "left"] >>

\* C3 as stated: the calls of that run are exactly activate, the first
\* command, split(vertical), navigate(right), the second command,
\* navigate(left).
C3_ExactCalls ==
  C3Run => RecordedCalls = <<[op |-> "activate"]>> \o C3Steps

\* C3 amended: the first call of that run is activate; its calls other than
\* the focus checks' (activate and the frontmost query) are exactly the
\* first command, split(vertical), navigate(right), the second command,
\* navigate(left); and each of these five is directly preceded by an
\* activate and a frontmost query of the focus check of its primitive.
C3_StepsBetweenFocusChecks ==
  C3Run =>
    /\ RecordedCalls[1] = [op |-> "activate"]
    /\ RecordedSteps = C3Steps
    /\ \A k \in 1..Len(calls) :
         IsStep(calls[k]) =>
           /\ k > 2
           /\ calls[k - 2] = ActivateCall
           /\ calls[k - 1] = FrontmostCall

\* C3 witness: that run has ended.
C3_Witness == C3Run /\ Len(calls) > 6

-----------------------------------------------------------------------------
(* C4 *)

\* The position in prims of the first command sent for child i of the root
\* Split (by the root itself, or within the nested Split that child is), or
\* 0 if there is none yet.
FirstCommandOfChild(i) ==
  LET hits == { k \in 1..Len(prims) :
                  /\ prims[k].kind = "runCommand"
                  /\ \/ prims[k].owner = <<>> /\ prims[k].child = i
                     \/ prims[k].owner # <<>> /\ Head(prims[k].owner) = i }
  IN  IF hits = {} THEN 0 ELSE CHOOSE k \in hits : \A j \in hits : k <= j

\* The primitives invoked before position k that create a split or navigate.
PairsBefore(k) ==
  SelectSeq(SubSeq(prims, 1, k - 1),
            LAMBDA e : e.kind \in {"createSplit", "navigateToPane"})

\* The primitives the root Split itself invoked before position k.
RootOwnedBefore(k) ==
  SelectSeq(SubSeq(prims, 1, k - 1), LAMBDA e : e.owner = <<>>)

\* C4: with useCurrentTab = true and a root Split of at least two children,
\* nothing is split or navigated before the first child's first command, and
\* between the end of the first child and the second child's first command
\* the root issues exactly one createSplit followed by one navigateToPane,
\* both for the second child.
C4_CurrentTabFirstChild ==
  (useCurrentTab /\ ~IsPane(structure) /\ Len(structure.panes) >= 2) =>
    /\ FirstCommandOfChild(0) > 0 => PairsBefore(FirstCommandOfChild(0)) = <<>>
    /\ FirstCommandOfChild(1) > 0 =>
         LET root == SelectSeq(RootOwnedBefore(FirstCommandOfChild(1)),
                               LAMBDA e : e.kind # "runCommand")
         IN  /\ Len(root) = 2
             /\ root[1].kind = "createSplit" /\ root[1].child = 1
             /\ root[2].kind = "navigateToPane" /\ root[2].child = 1
             /\ \E k \in 1..(FirstCommandOfChild(1) - 2) :
                  /\ prims[k] = root[1]
                  /\ prims[k + 1] = root[2]
                  /\ \A j \in 1..k : prims[j].owner = <<>> => j = k \/ prims[j].kind = "runCommand"
                  /\ \A j \in (k + 2)..(FirstCommandOfChild(1) - 1) : prims[j].owner # <<>>

\* C4 witness: with useCurrentTab = true, the second child's command has been
\* sent after the first child, a nested Split, ran its own split/navigate
\* pairs.
C4_Witness ==
  /\ useCurrentTab
  /\ ~IsPane(structure)
  /\ Len(structure.panes) >= 2
  /\ ~IsPane(structure.panes[1])
  /\ Len(structure.panes[1].panes) >= 2
  /\ FirstCommandOfChild(1) > 0
  /\ status = "done"

-----------------------------------------------------------------------------
(* C5 *)

\* C5: whenever the execution of a Split (the root or a nested one, at any
\* child position) has completed without error, the focused pane of the
\* terminal is the pane that was focused when the execution of that Split
\* started.
C5_FocusRestored ==
  \A k \in 1..Len(stack) :
    Completed(stack[k]) => target.focus = stack[k].focus

\* C5 witness: a nested Split that is not the first child of its parent and
\* has split its own pane has completed, with more than two panes on screen.
C5_Witness ==
  /\ faults = 0
  /\ \E k \in 1..Len(stack) :
       /\ Completed(stack[k])
       /\ stack[k].path # <<>>
       /\ stack[k].path[Len(stack[k].path)] > 0
       /\ Len(NodeAt(structure, stack[k].path).panes) >= 2
       /\ stack[k].focus # 1
       /\ Len(target.panes) >= 3

-----------------------------------------------------------------------------
(* C6 *)

\* C6: once a primitive has failed for good, the exception stays the same
\* until it reaches the caller; no osascript process is started and no
\* primitive invoked any more (so no split, navigation or command for the
\* remaining nodes and no back-navigation); the run never completes, and
\* when the last activation record has ended the run has failed.
C6_FailureAborts ==
  [][error # NoError =>
       /\ error' = error
       /\ calls' = calls
       /\ prims' = prims
       /\ prim' = NoPrim
       /\ status' # "done"
       /\ stack' = <<>> => status' = "failed"]_vars

\* C6 witness: the run has failed with an exception raised inside a nested
\* Split, leaves of the tree have had no command and the root has not
\* navigated back.
C6_Witness ==
  /\ status = "failed"
  /\ error # NoError
  /\ stack = <<>>
  /\ prims[Len(prims)].owner # <<>>
  /\ Len(structure.panes) >= 2
  /\ Len(SelectSeq(prims, LAMBDA e : e.kind = "runCommand")) < LeafCount(structure)
  /\ \A k \in 1..Len(prims) :
       prims[k].owner = <<>> => prims[k].arg \notin {"left", "up"}

-----------------------------------------------------------------------------
(* C7 *)

\* C7: at every moment of a layout execution at most one osascript child
\* process started for a primitive has not exited, also when an attempt
\* ended by timeout and withRetry has started the next one.
C7_OneScriptInFlight == Cardinality(running) <= 1

-----------------------------------------------------------------------------
(* C8 *)

\* C8: when createLayoutStructure rejects, what its caller receives is a
\* ScriptExecutionError carrying the error of the failed script as its cause.
C8_FailureIsScriptExecutionError ==
  status = "failed" =>
    /\ error.name = "ScriptExecutionError"
    /\ error.originalError.name \in {"Error", "TimeoutError"}

-----------------------------------------------------------------------------
(* C9 *)

\* C9: the retryCount of a ScriptExecutionError thrown by createSplit or
\* runCommand is the number of retries withRetry made before it gave up.
C9_RetryCountIsRetriesMade ==
  error.name = "ScriptExecutionError" => error.retryCount = error.retries

-----------------------------------------------------------------------------
(* C10 *)

\* The directory C10 names for a pane under the root directory root.
ClaimedDirectory(pane, root) ==
  IF pane.workingDirectory = Absent THEN root
  ELSE IF isAbsolute(pane.workingDirectory) \/ StartsWith(pane.workingDirectory, <<"~">>)
       THEN pane.workingDirectory
  ELSE Join(root, pane.workingDirectory)

\* C10: with a root directory R, the command sent for every pane changes to
\* the pane's own directory when that is absolute or tilde-prefixed, to the
\* join of R and the pane's directory when that is relative, and to R when
\* the pane has none.
C10_DirectoryResolved ==
  rootDirectory # Absent =>
    \A k \in 1..Len(prims) :
      prims[k].kind = "runCommand" =>
        CommandCall(prims[k].arg, prims[k].dir)
          = CommandCall(PaneOf(prims[k]).command,
                        ClaimedDirectory(PaneOf(prims[k]), rootDirectory))

-----------------------------------------------------------------------------
(* C11 *)

\* C11: the execution of every tree eventually completes or fails, also when
\* an automation call never returns.
C11_ExecutionEnds == <>(status # "running")

-----------------------------------------------------------------------------
(* C12 *)

\* what fn's promises settled with, in order
Settles == SelectSeq(retryLog, LAMBDA e : e.op = "settle")

\* C12: with a shouldRetry that always accepts, fn is never invoked more
\* than maxRetries + 1 times and never after an invocation that succeeded;
\* a run that resolved returns the value of its last invocation, the only
\* one that succeeded; a run that rejected has invoked fn exactly
\* maxRetries + 1 times, all failed, and rejects with the error object of
\* the last invocation itself.
C12_InvocationCount ==
  retry.shouldRetry = "default" =>
    /\ FnCalls <= retry.maxRetries + 1
    /\ \A j \in 1..Len(Settles) :
         /\ Settles[j].outcome.of = j
         /\ Settles[j].outcome.settled = "resolved" => j = FnCalls
    /\ retry.pc = "resolved" =>
         /\ Len(Settles) = FnCalls
         /\ retry.result = Settles[FnCalls].outcome
         /\ retry.result = [settled |-> "resolved", value |-> FnCalls, of |-> FnCalls]
    /\ retry.pc = "rejected" =>
         /\ FnCalls = retry.maxRetries + 1
         /\ Len(Settles) = FnCalls
         /\ retry.result = Settles[FnCalls].outcome
         /\ retry.result.settled = "rejected"
         /\ retry.result.of = retry.maxRetries + 1
         /\ retry.lastError = retry.result.error

\* C12 witness: with maxRetries = 2 and the default shouldRetry, the run has
\* rejected after three invocations, the last of them a timeout.
C12_Witness ==
  /\ retry.pc = "rejected"
  /\ retry.shouldRetry = "default"
  /\ retry.maxRetries = 2
  /\ FnCalls = 3
  /\ retry.result.error.name = "TimeoutError"

-----------------------------------------------------------------------------
(* C13 *)

OnRetries == SelectSeq(retryLog, LAMBDA e : e.op = "onRetry")

\* C13: when an onRetry is given, its calls are numbered 1, 2, ... in
\* order; each comes directly after the failure it reports, with that
\* failure's error, and directly before the wait of the retry; every wait
\* has one before it; and a run that has ended has called it once less than
\* it has invoked fn.
C13_OnRetryOncePerRetry ==
  retry.onRetry =>
    /\ \A j \in 1..Len(OnRetries) : OnRetries[j].n = j
    /\ \A k \in 1..Len(retryLog) :
         /\ retryLog[k].op = "onRetry" =>
              /\ k > 1
              /\ retryLog[k - 1].op = "settle"
              /\ retryLog[k - 1].outcome = retryLog[k].error
              /\ retryLog[k].error.settled = "rejected"
              /\ k < Len(retryLog)
              /\ retryLog[k + 1].op = "wait"
         /\ retryLog[k].op = "wait" => k > 1 /\ retryLog[k - 1].op = "onRetry"
    /\ retry.pc \in {"resolved", "rejected"} => Len(OnRetries) = FnCalls - 1

\* C13 witness: a run with an onRetry has resolved at its third invocation,
\* after two calls of onRetry.
C13_Witness ==
  /\ retry.onRetry
  /\ retry.pc = "resolved"
  /\ FnCalls = 3
  /\ Len(OnRetries) = 2

-----------------------------------------------------------------------------
(* C14 *)

\* C14: once fn has failed with an error for which shouldRetry returns
\* false, nothing follows: no invocation, no onRetry, no wait; the run
\* rejects with that error, whatever attempts remain.
C14_ShouldRetryFalseStops ==
  \A k \in 1..Len(retryLog) :
    LET e == retryLog[k] IN
    ( /\ e.op = "settle"
      /\ e.outcome.settled = "rejected"
      /\ \/ retry.shouldRetry = "never"
         \/ retry.shouldRetry = "unlessTimeout"
            /\ e.outcome.error.name = "TimeoutError" ) =>
      /\ k = Len(retryLog)
      /\ retry.pc \in {"settled", "rejected"}
      /\ retry.pc = "rejected" => retry.result = e.outcome

\* C14 witness: a run whose shouldRetry refuses timeouts has retried an
\* error once and has then rejected with a timeout, attempts remaining.
C14_Witness ==
  /\ retry.pc = "rejected"
  /\ retry.shouldRetry = "unlessTimeout"
  /\ FnCalls = 2
  /\ retry.attempt < retry.maxRetries
  /\ retry.result.error.name = "TimeoutError"

-----------------------------------------------------------------------------
(* C15 *)

Waits == SelectSeq(retryLog, LAMBDA e : e.op = "wait")

\* C15: the first wait is retryDelay; with exponentialBackoff every later
\* wait is twice the one before, without it every wait is retryDelay; a wait
\* follows a failure and is followed by nothing but the next invocation; a
\* run that has ended has waited once less than it has invoked fn, and the
\* last thing it did was not a wait.
C15_BackoffWaits ==
  /\ \A j \in 1..Len(Waits) :
       Waits[j].ms = IF retry.exponentialBackoff /\ j > 1
                     THEN 2 * Waits[j - 1].ms
                     ELSE retry.retryDelay
  /\ \A k \in 1..Len(retryLog) :
       retryLog[k].op = "wait" =>
         /\ \E j \in 1..(k - 1) :
              /\ retryLog[j].op = "settle"
              /\ retryLog[j].outcome.settled = "rejected"
              /\ \A m \in (j + 1)..(k - 1) : retryLog[m].op = "onRetry"
         /\ k < Len(retryLog) => retryLog[k + 1].op = "fn"
  /\ retry.pc \in {"resolved", "rejected"} =>
       /\ Len(Waits) = FnCalls - 1
       /\ retryLog[Len(retryLog)].op = "settle"

\* C15 witness: with retryDelay 500 and exponentialBackoff the run has
\* waited 500, 1000 and 2000 ms and has ended.
C15_Witness ==
  /\ retry.exponentialBackoff
  /\ retry.retryDelay = 500
  /\ retry.pc = "rejected"
  /\ Len(Waits) = 3
  /\ Waits[3].ms = 2000

-----------------------------------------------------------------------------
(* C16 *)

OperationTimedOutAfter500ms ==
  <<"O", "p", "e", "r", "a", "t", "i", "o", "n", " ", "t", "i", "m", "e",
    "d", " ", "o", "u", "t", " ", "a", "f", "t", "e", "r", " ", "5", "0",
    "0", "m", "s">>

\* C16: once withTimeout has settled, its timer is not pending; if the
\* operation settled first (the timer was cleared) the outcome is the
\* operation's, a value or its own error; if the timer fired first the
\* outcome is a TimeoutError with the configured timeoutMs and with the given
\* message or, none given, "Operation timed out after <timeoutMs>ms".
C16_TimeoutRace ==
  (retry.useTimeout /\ retry.pc \notin {"call", "await"}) =>
    /\ timer.state \in {"cleared", "fired"}
    /\ timer.state = "cleared" =>
         \/ retry.fnResult = [settled |-> "resolved", value |-> FnCalls, of |-> FnCalls]
         \/ retry.fnResult = [settled |-> "rejected", error |-> [name |-> "Error"],
                              of |-> FnCalls]
    /\ timer.state = "fired" =>
         /\ retry.fnResult.settled = "rejected"
         /\ retry.fnResult.error.name = "TimeoutError"
         /\ retry.fnResult.error.timeoutMs = retry.timeoutMs
         /\ retry.errorMessage # <<>> =>
              retry.fnResult.error.message = retry.errorMessage
         /\ (retry.errorMessage = <<>> /\ retry.timeoutMs = 500) =>
              retry.fnResult.error.message = OperationTimedOutAfter500ms
         /\ (retry.errorMessage = <<>> /\ retry.timeoutMs = 5000) =>
              retry.fnResult.error.message
                = SubSeq(OperationTimedOutAfter500ms, 1, 29) \o <<"0", "m", "s">>

\* C16 witness: a withTimeout of 5000 ms without a message has rejected
\* because its timer fired, and the operation it raced is still pending.
C16_Witness ==
  /\ retry.useTimeout
  /\ retry.pc = "settled"
  /\ timer.state = "fired"
  /\ retry.errorMessage = <<>>
  /\ retry.timeoutMs = 5000
  /\ retry.abandoned > 0


\* a step in which a wrapped function rejected inside execute
FailureStep == observed'.event = "failure" /\ inFlight' = inFlight - 1

\* a step in which a wrapped function resolved inside execute
SuccessStep == observed'.event = "success" /\ inFlight' = inFlight - 1

\* a step in which execute called the wrapped function
InvokeStep == observed'.event = "invoked" /\ inFlight' = inFlight + 1

\* a step that is a call of execute
ExecuteStep ==
  \/ InvokeStep
  \/ observed'.event = "rejected" /\ observed.event # "rejected"

\* C17: a closed breaker becomes open exactly at the failure that brings the
\* failures since the last success or reset to failureThreshold, with fewer it
\* stays closed, and every failure stores the time at which it happened.
C17_OpensAtThreshold ==
  [][/\ breaker.state = "closed" =>
          /\ observed.sinceSuccess < breaker.failureThreshold
          /\ breaker'.state \in {"closed", "open"}
          /\ breaker'.state = "open" <=>
                /\ FailureStep
                /\ observed'.sinceSuccess = breaker.failureThreshold
     /\ FailureStep => breaker'.lastFailureTime = now /\ now > 0]_vars

C17_Witness ==
  /\ breaker.state = "open"
  /\ observed.event = "failure"
  /\ ~observed.reopened
  /\ breaker.failureThreshold = 3
  /\ observed.sinceSuccess = 3
  /\ breaker.lastFailureTime = now

\* C18: while the breaker is open and less than resetTimeout has passed since
\* the last failure, a call of execute is rejected and the function is not
\* invoked; once resetTimeout has passed, a call of execute makes the breaker
\* half-open with no half-open attempt counted and invokes the function.
C18_OpenRejectsUntilTimeout ==
  [][(breaker.state = "open" /\ ExecuteStep) =>
        IF now - observed.failedAt < breaker.resetTimeout
        THEN /\ observed'.event = "rejected"
             /\ inFlight' = inFlight
             /\ breaker' = breaker
        ELSE /\ InvokeStep
             /\ breaker'.state = "half-open"
             /\ breaker'.halfOpenAttempts = 0]_vars

C18_Witness ==
  /\ breaker.state = "half-open"
  /\ observed.event = "invoked"
  /\ breaker.resetTimeout = 2
  /\ now - observed.failedAt = 2

\* C19: a half-open breaker stays half-open at every success that is not the
\* halfOpenMaxAttempts-th since it became half-open, and at that success it
\* becomes closed with failures 0, halfOpenAttempts 0 and no lastFailureTime.
C19_HalfOpenCloses ==
  [][(breaker.state = "half-open" /\ SuccessStep) =>
        IF observed'.halfOpenSuccesses < breaker.halfOpenMaxAttempts
        THEN breaker'.state = "half-open"
        ELSE /\ observed'.halfOpenSuccesses = breaker.halfOpenMaxAttempts
             /\ breaker'.state = "closed"
             /\ breaker'.failures = 0
             /\ breaker'.halfOpenAttempts = 0
             /\ breaker'.lastFailureTime = 0]_vars

C19_Witness ==
  /\ breaker.state = "closed"
  /\ observed.event = "success"
  /\ breaker.halfOpenMaxAttempts = 2
  /\ observed.halfOpenSuccesses = 2
  /\ observed.failedAt > 0

\* C20: a failure while half-open makes the breaker open in that step whatever
\* its counters, and until resetTimeout has passed since that failure no call
\* of execute invokes the function.
C20_HalfOpenFailureReopens ==
  [][/\ (breaker.state = "half-open" /\ FailureStep) =>
          breaker'.state = "open" /\ breaker'.lastFailureTime = now
     /\ (observed.reopened /\ now - observed.failedAt < breaker.resetTimeout) =>
          /\ breaker.state = "open"
          /\ ~InvokeStep]_vars

C20_Witness ==
  /\ observed.reopened
  /\ observed.event = "rejected"
  /\ breaker.state = "open"
  /\ breaker.failures < breaker.failureThreshold


\* C21: a success while the breaker is closed leaves it closed with failures 0;
\* the failure counter of a breaker is the number of failures since the last
\* success or reset, and a closed breaker opens only when that many
\* consecutive failures make failureThreshold.
C21_SuccessClearsFailures ==
  [][/\ (breaker.state = "closed" /\ SuccessStep) =>
          breaker'.state = "closed" /\ breaker'.failures = 0
     /\ breaker'.failures = observed'.sinceSuccess
     /\ (breaker.state = "closed" /\ breaker'.state = "open") =>
          /\ FailureStep
          /\ breaker'.failures = breaker.failures + 1
          /\ breaker'.failures = breaker.failureThreshold]_vars

\* a success while closed after a failure while closed, threshold 2: the
\* failure time is still stored, so no reset has happened since that failure
C21_Witness ==
  /\ breaker.state = "closed"
  /\ observed.event = "success"
  /\ breaker.failureThreshold = 2
  /\ breaker.lastFailureTime > 0
  /\ breaker.failures = 0


\* the object's own AdaptiveDelay and the instances of its map
Instances ==
  {InstanceOf(delay, context) : context \in Contexts} \ {NoInstance}

\* C22: the current delay of every AdaptiveDelay constructed with
\* min <= base <= max is at least min and at most max, whatever calls were made.
C22_DelayWithinBounds ==
  \A d \in Instances :
     /\ AtMost(Whole(d.minDelay), d.currentDelay)
     /\ AtMost(d.currentDelay, Whole(d.maxDelay))

\* three successes held the delay at a minimum below base (80 raised to 90),
\* then two failures held it at a maximum above base (135 lowered to 120)
C22_Witness ==
  \E d \in Instances :
     /\ d.minDelay = 90 /\ d.baseDelay = 100 /\ d.maxDelay = 120
     /\ d.successCount = 1
     /\ d.failureCount = 2
     /\ d.currentDelay = Whole(d.maxDelay)
     /\ delayCall.op = "recordFailure"
     /\ delayCall.n = 5


\* the object is an AdaptiveDelay(100, 50, 1000) on which exactly n calls
\* have been made, all of them recordSuccess(), resp. recordFailure():
\* only that call raises the streak counter, by one
FreshAfterSuccesses(n) ==
  /\ delay.self.baseDelay = 100
  /\ delay.self.minDelay = 50
  /\ delay.self.maxDelay = 1000
  /\ delayCall.n = n
  /\ delay.self.successCount = n

FreshAfterFailures(n) ==
  /\ delay.self.baseDelay = 100
  /\ delay.self.minDelay = 50
  /\ delay.self.maxDelay = 1000
  /\ delayCall.n = n
  /\ delay.self.failureCount = n

\* C23: on a fresh AdaptiveDelay(100, 50, 1000), three recordSuccess calls
\* leave current below 100 and not below 50, three recordFailure calls leave
\* it above 100 and not above 1000, and fewer than three recordSuccess calls
\* leave it at 100.
C23_ThreeSignals ==
  /\ FreshAfterSuccesses(3) =>
       /\ Less(delay.self.currentDelay, Whole(100))
       /\ AtMost(Whole(50), delay.self.currentDelay)
  /\ FreshAfterFailures(3) =>
       /\ Less(Whole(100), delay.self.currentDelay)
       /\ AtMost(delay.self.currentDelay, Whole(1000))
  /\ \A n \in 0..2 :
       FreshAfterSuccesses(n) => delay.self.currentDelay = Whole(100)

C23_Witness ==
  /\ FreshAfterSuccesses(3)
  /\ delay.self.currentDelay = Whole(80)


\* a step that is a call of reset() on the object or on one of its instances
ResetStep == delayCall'.op = "reset" /\ delayCall'.n = delayCall.n + 1

\* C24: whatever was called before, reset() leaves the instance with current
\* equal to base, both streak counters 0 and an empty history, and the
\* average delay it reports then is base.
C24_ResetRestores ==
  [][ResetStep =>
       LET d == InstanceOf(delay', delayCall'.context)
       IN  d # NoInstance =>
             /\ d.currentDelay = Whole(d.baseDelay)
             /\ d.successCount = 0
             /\ d.failureCount = 0
             /\ d.delayHistory = <<>>
             /\ getAverageDelay(d) = d.baseDelay]_vars

\* reset() called while a wait that began with a delay below base is asleep
C24_Witness ==
  /\ delayCall.op = "reset"
  /\ delayCall.context = NoContext
  /\ sleeping # <<>>
  /\ sleeping[1].context = NoContext
  /\ sleeping[1].delay < delay.self.baseDelay
  /\ delay.self.currentDelay = Whole(delay.self.baseDelay)
  /\ delay.self.successCount = 0


\* a step that is a call of wait, recordSuccess or recordFailure, or the end
\* of the sleep of a wait call
ContextStep ==
  \/ /\ delayCall'.n = delayCall.n + 1
     /\ delayCall'.op \in {"wait", "recordSuccess", "recordFailure"}
  \/ /\ delayCall'.op = "waited"
     /\ Len(sleeping') = Len(sleeping) - 1

\* C25: a wait, recordSuccess or recordFailure call made with a context key
\* changes nothing of what the object holds under any other key or under no
\* key, and such a call made without a key changes nothing held under a key.
C25_ContextsIsolated ==
  [][ContextStep =>
       \A other \in Contexts \ {delayCall'.context} :
          InstanceOf(delay', other) = InstanceOf(delay, other)]_vars

\* failures recorded under "a" have raised its delay while "b", created after
\* them, and the object's own delay are at base
C25_Witness ==
  /\ Has("a")
  /\ Has("b")
  /\ Less(Whole(delay.self.baseDelay), delay.contextMap["a"].currentDelay)
  /\ delay.contextMap["b"].currentDelay = Whole(delay.self.baseDelay)
  /\ delay.self.currentDelay = Whole(delay.self.baseDelay)
  /\ delayCall.op = "wait"
  /\ delayCall.context = "b"


\* a step that is a call of recordSuccess or recordFailure with a context key
\* that is not in the map
SignalOnNewKey ==
  /\ delayCall'.n = delayCall.n + 1
  /\ delayCall'.op \in {"recordSuccess", "recordFailure"}
  /\ delayCall'.context # NoContext
  /\ ~Has(delayCall'.context)

\* C26: recordSuccess(key) and recordFailure(key) with a key never used before
\* create the instance of that key and record the signal in it.
C26_SignalCreatesContext ==
  [][SignalOnNewKey =>
       /\ delay'.contextMap[delayCall'.context] # NoInstance
       /\ delay'.contextMap[delayCall'.context] =
            Method(delayCall'.op,
                   AdaptiveDelay(delay.self.baseDelay, delay.self.minDelay,
                                 delay.self.maxDelay))]_vars


\* a step in which ensureGhosttyFrontmost ran to its end although one of its
\* calls failed or another application was frontmost
DisturbedFocusStep ==
  /\ faults' = faults + 1
  /\ Len(calls') > Len(calls)
  /\ ~(prim' # NoPrim /\ prim'.phase = "hung")

\* C27: a run of ensureGhosttyFrontmost in which the activation, the frontmost
\* query or the corrective activation fails raises nothing: the run is still
\* going, no exception travels, and the caller has its own script ready to
\* start (a primitive) or goes on to its first statement (structure start).
C27_FocusCheckNeverRaises ==
  [][DisturbedFocusStep =>
       /\ error' = NoError
       /\ status' = "running"
       /\ \/ /\ prim' # NoPrim
             /\ prim'.phase = "exec"
             /\ Len(prims') = Len(prims) + 1
             /\ prims'[Len(prims')].kind = prim'.kind
          \/ /\ prim' = NoPrim
             /\ Top.pc = "start"
             /\ stack'[Len(stack')].pc \in {"pane", "loop"}]_vars

\* the script of a createSplit is running after a focus check whose
\* activation failed: the split follows a lone activation
C27_Witness ==
  /\ prim # NoPrim
  /\ prim.kind = "createSplit"
  /\ prim.phase = "await"
  /\ prim.attempt = 0
  /\ faults = 1
  /\ Len(calls) >= 3
  /\ calls[Len(calls)] = prim.call
  /\ calls[Len(calls) - 1] = ActivateCall
  /\ calls[Len(calls) - 2] # FrontmostCall


\* the calls a step has started
CallsAdded == SubSeq(calls', Len(calls) + 1, Len(calls'))

Occurrences(cs, call) == Cardinality({i \in DOMAIN cs : cs[i] = call})

\* C28: one run of ensureGhosttyFrontmost starts with the activation, makes
\* the frontmost query at most once, and activates a second time exactly when
\* the query answered a name that is not "ghostty" in lower case; it makes no
\* other call.
C28_OneCorrectiveActivation ==
  [][focusRun' # NoFocusRun =>
       /\ CallsAdded # <<>>
       /\ CallsAdded[1] = ActivateCall
       /\ \A i \in DOMAIN CallsAdded :
             CallsAdded[i] \in {ActivateCall, FrontmostCall}
       /\ Occurrences(CallsAdded, FrontmostCall) <= 1
       /\ Occurrences(CallsAdded, ActivateCall) <= 2
       /\ Occurrences(CallsAdded, ActivateCall) = 2 <=>
             /\ Occurrences(CallsAdded, FrontmostCall) = 1
             /\ focusRun'.queryOk
             /\ ToLowerCase(focusRun'.appName) # <<"g", "h", "o", "s", "t", "t", "y">>
       /\ Occurrences(CallsAdded, ActivateCall) = 2 =>
             CallsAdded = <<ActivateCall, FrontmostCall, ActivateCall>>]_vars

\* a run that found Finder frontmost and activated once more
C28_Witness ==
  /\ focusRun # NoFocusRun
  /\ focusRun.queryOk
  /\ focusRun.appName = FinderName
  /\ Len(calls) >= 3
  /\ SubSeq(calls, Len(calls) - 2, Len(calls))
       = <<ActivateCall, FrontmostCall, ActivateCall>>


\* a step in which the script of a navigateToPane ends with an error
NavigationFails ==
  /\ prim # NoPrim
  /\ prim.kind = "navigateToPane"
  /\ prim.phase = "await"
  /\ faults' = faults + 1
  /\ ~(prim' # NoPrim /\ prim'.phase = "hung")

\* C29: when the script of a navigateToPane fails, it is the only script that
\* call has started, the call ends there with the script's own error, and
\* nothing is recorded on the delay object: no wait and no success under
\* "navigate".
C29_NavigationNotRetried ==
  [][NavigationFails =>
       /\ prim.attempt = 0
       /\ SubSeq(calls, prim.awaiting, Len(calls)) = <<prim.call>>
       /\ calls' = calls
       /\ prim' = NoPrim
       /\ error' = ExecError
       /\ delayLog' = delayLog]_vars

\* the run has failed with the error of a navigation script, after a
\* navigation that succeeded and was recorded
C29_Witness ==
  /\ status = "failed"
  /\ error = ExecError
  /\ prims[Len(prims)].kind = "navigateToPane"
  /\ calls[Len(calls)].kind = "navigate"
  /\ delayLog[Len(delayLog)].context # NavigateContext
  /\ \E i \in DOMAIN delayLog : delayLog[i].context = NavigateContext


\* how many of the last entries of cs are call
RECURSIVE TrailingSends(_, _)
TrailingSends(cs, call) ==
  IF cs = <<>> \/ cs[Len(cs)] # call THEN 0
  ELSE 1 + TrailingSends(SubSeq(cs, 1, Len(cs) - 1), call)

\* a step in which withTimeout's timer ends an attempt of a runCommand whose
\* command includes "npm install"
InstallTimesOut ==
  /\ Awaiting
  /\ prim.kind = "runCommand"
  /\ Includes(prim.command, NpmInstallPattern)
  /\ prim' # prim
  /\ running' = running

\* a step in which runCommand throws
CommandFails ==
  /\ prim # NoPrim
  /\ prim.kind = "runCommand"
  /\ prim' = NoPrim
  /\ error' # NoError

\* C30 as stated: when an attempt of a runCommand whose command includes
\* "npm install" ends with a TimeoutError, runCommand fails with the script
\* sent once; whenever runCommand fails, the script was sent at most 3 times.
C30_TimeoutAfterSingleSend ==
  [][/\ InstallTimesOut =>
          /\ CommandFails
          /\ calls' = calls
          /\ TrailingSends(calls, prim.call) = 1
     /\ CommandFails =>
          TrailingSends(calls, prim.call) <= CommandMaxRetries + 1]_vars

\* C30, amended: when an attempt of a runCommand whose command includes
\* "npm install" ends with a TimeoutError, runCommand fails there with a
\* ScriptExecutionError carrying the TimeoutError and the script is not sent
\* again: it was sent once when that attempt is the first, and once more for
\* every retried failure before it; whenever runCommand fails, the script
\* was sent at most 3 times.
C30_TimeoutEndsSending ==
  [][/\ InstallTimesOut =>
          /\ CommandFails
          /\ calls' = calls
          /\ error'.name = "ScriptExecutionError"
          /\ error'.originalError.name = "TimeoutError"
          /\ TrailingSends(calls, prim.call) = prim.attempt + 1
          /\ prim.attempt = 0 => TrailingSends(calls, prim.call) = 1
     /\ CommandFails =>
          TrailingSends(calls, prim.call) <= CommandMaxRetries + 1]_vars

\* "npm install" has failed by timeout at its second send, after a rejected
\* first one
C30_Witness ==
  /\ status = "failed"
  /\ error.name = "ScriptExecutionError"
  /\ error.originalError.name = "TimeoutError"
  /\ error.retries = 1
  /\ prims[Len(prims)].kind = "runCommand"
  /\ Includes(prims[Len(prims)].arg, NpmInstallPattern)
  /\ TrailingSends(calls, calls[Len(calls)]) = 2


-----------------------------------------------------------------------------
(* AdaptiveDelay: the direction of an adjustment *)

\* a step that is a call of op that reached an AdaptiveDelay
SignalStep(op) ==
  /\ delayCall'.op = op
  /\ delayCall'.n = delayCall.n + 1
  /\ InstanceOf(delay, delayCall'.context) # NoInstance

\* C34: as stated, a recordFailure() call never lowers the current delay of
\* the AdaptiveDelay it is made on.
C34_FailureNeverLowers ==
  [][SignalStep("recordFailure") =>
       AtMost(InstanceOf(delay, delayCall'.context).currentDelay,
              InstanceOf(delay', delayCall'.context).currentDelay)]_vars

\* C35: as stated, a recordSuccess() call never raises the current delay of
\* the AdaptiveDelay it is made on.
C35_SuccessNeverRaises ==
  [][SignalStep("recordSuccess") =>
       AtMost(InstanceOf(delay', delayCall'.context).currentDelay,
              InstanceOf(delay, delayCall'.context).currentDelay)]_vars


-----------------------------------------------------------------------------
(* createLayoutStructure as a function of its arguments *)

RECURSIVE LayoutSteps(_, _, _, _)
RECURSIVE ChildSteps(_, _, _, _, _)

\* lines 401-425: what the first loop invokes for the children from i on
ChildSteps(node, root, currentTab, path, i) ==
  IF i >= Len(node.panes) THEN <<>>
  ELSE LET pane == node.panes[i + 1] IN
       (IF NeedsSplit(i, currentTab)
        THEN <<Invocation("createSplit", node.direction, Absent, path, i),
               Invocation("navigateToPane", ForwardDirection(node.direction),
                          Absent, path, i)>>
        ELSE <<>>)
       \o (IF IsPane(pane)
           THEN <<Invocation("runCommand", pane.command,
                             PaneDirectory(pane, root), path, i)>>
           ELSE LayoutSteps(pane, root, FALSE, Append(path, i)))
       \o ChildSteps(node, root, currentTab, path, i + 1)

\* lines 428-434: what the second loop invokes
BackSteps(node, path) ==
  [k \in 1..(Len(node.panes) - FirstBackIndex) |->
     Invocation("navigateToPane", BackDirection(node.direction), Absent, path,
                k + FirstBackIndex - 1)]

\* lines 389-435: the primitives createLayoutStructure(node, root, currentTab)
\* invokes when none of them fails, node being at path in the whole tree
LayoutSteps(node, root, currentTab, path) ==
  IF IsPane(node)
  THEN <<Invocation("runCommand", node.command, PaneDirectory(node, root),
                    path, 0)>>
  ELSE ChildSteps(node, root, currentTab, path, 0) \o BackSteps(node, path)

\* The script a primitive invocation starts.
ScriptOf(e) ==
  CASE e.kind = "createSplit" -> Call("split", SplitModifier(e.arg))
    [] e.kind = "navigateToPane" -> Call("navigate", KeyCode(e.arg))
    [] e.kind = "runCommand" -> CommandCall(e.arg, e.dir)

\* The leaves of a tree, depth first and left to right, each with the path
\* of child indexes that leads to it.
RECURSIVE LeavesOf(_, _)
RECURSIVE LeavesOfAll(_, _, _)
LeavesOf(node, path) ==
  IF IsPane(node) THEN <<[pane |-> node, path |-> path]>>
  ELSE LeavesOfAll(node.panes, path, 0)
LeavesOfAll(nodes, path, i) ==
  IF nodes = <<>> THEN <<>>
  ELSE LeavesOf(Head(nodes), Append(path, i))
         \o LeavesOfAll(Tail(nodes), path, i + 1)

\* The path of the node a runCommand invocation was made for.
PathOf(e) ==
  IF IsPane(NodeAt(structure, e.owner)) THEN e.owner ELSE Append(e.owner, e.child)

Commands == SelectSeq(prims, LAMBDA e : e.kind = "runCommand")
SplitCreations == SelectSeq(prims, LAMBDA e : e.kind = "createSplit")
CommandScripts == SelectSeq(calls, LAMBDA c : c.kind = "command")

\* C36: when a run has completed without error, the commands it has sent are
\* those of the leaves of the tree, one for each leaf, in depth-first
\* left-to-right order; it has created one split less than there are
\* leaves; and each split was created before any command of the child it was
\* created for, which has one. In a run that nothing disturbed the command
\* scripts started are those same commands, each once.
C36_LeavesInPreOrder ==
  status = "done" =>
    LET leaves == LeavesOf(structure, <<>>) IN
    /\ Len(Commands) = Len(leaves)
    /\ \A k \in 1..Len(leaves) :
         /\ Commands[k].arg = leaves[k].pane.command
         /\ PathOf(Commands[k]) = leaves[k].path
    /\ Len(SplitCreations) = LeafCount(structure) - 1
    /\ \A k \in 1..Len(prims) :
         prims[k].kind = "createSplit" =>
           LET room == Append(prims[k].owner, prims[k].child) IN
           /\ \A j \in 1..k :
                prims[j].kind = "runCommand" => ~IsPrefix(room, PathOf(prims[j]))
           /\ \E j \in (k + 1)..Len(prims) :
                prims[j].kind = "runCommand" /\ IsPrefix(room, PathOf(prims[j]))
    /\ faults = 0 =>
         CommandScripts = [k \in 1..Len(Commands) |-> ScriptOf(Commands[k])]

\* a completed run of a Split whose first child is a Split of two panes and
\* whose second child is a pane: three commands and two splits
C36_Witness ==
  /\ status = "done"
  /\ ~IsPane(structure)
  /\ Len(structure.panes) = 2
  /\ ~IsPane(structure.panes[1])
  /\ Len(structure.panes[1].panes) = 2
  /\ IsPane(structure.panes[2])
  /\ Len(Commands) = 3
  /\ Len(SplitCreations) = 2

\* C37: the primitives a run invokes are, in order, those that
\* createLayoutStructure invokes for its tree and root directory with the
\* other value of useCurrentTab, which are those it invokes with the run's
\* own value (compared where the run starts: the arguments never change);
\* in a run that nothing disturbed, so are the scripts of its splits,
\* navigations and commands.
C37_CurrentTabChangesNothing ==
  LET mine == LayoutSteps(structure, rootDirectory, useCurrentTab, <<>>)
      other == LayoutSteps(structure, rootDirectory, ~useCurrentTab, <<>>)
  IN  /\ IsPrefix(prims, other)
      /\ prims = <<>> => mine = other
      /\ status = "done" => prims = other
      /\ (status = "done" /\ faults = 0) =>
           SelectSeq(calls, IsStep) = [k \in 1..Len(other) |-> ScriptOf(other[k])]

\* a completed run with useCurrentTab = true of a Split with three children
C37_Witness ==
  /\ status = "done"
  /\ useCurrentTab
  /\ ~IsPane(structure)
  /\ Len(structure.panes) = 3
  /\ Len(SplitCreations) >= 2


-----------------------------------------------------------------------------
(* domain/schema.ts: validateLayoutStructure on the values JSON.parse gives *)

\* JSON values, each with its typeof; a key an object does not have is NoKey
NoKey == [t |-> "absent"]
Str(chars) == [t |-> "string", v |-> chars]
Num(n) == [t |-> "number", v |-> n]
Arr(items) == [t |-> "array", v |-> items]
Obj(command, direction, panes, workingDirectory, size) ==
  [t |-> "object", command |-> command, direction |-> direction,
   panes |-> panes, workingDirectory |-> workingDirectory, size |-> size]

Whitespace == {" ", "\t", "\n"}

\* String.prototype.trim
RECURSIVE TrimStart(_)
TrimStart(chars) ==
  IF chars = <<>> \/ Head(chars) \notin Whitespace THEN chars
  ELSE TrimStart(Tail(chars))
RECURSIVE TrimEnd(_)
TrimEnd(chars) ==
  IF chars = <<>> \/ chars[Len(chars)] \notin Whitespace THEN chars
  ELSE TrimEnd(SubSeq(chars, 1, Len(chars) - 1))
Trim(chars) == TrimEnd(TrimStart(chars))

\* lines 9-11
isRecord(value) == value.t = "object"

\* "key" in node
In(value) == value # NoKey

\* what a validator returns when it throws nothing
Accepted == "accepted"

\* lines 17-41
validatePaneNode(node) ==
  IF \/ ~isRecord(node)
     \/ node.command.t # "string"
     \/ Trim(node.command.v) = <<>>
  THEN "Pane must include a non-empty command"
  ELSE IF In(node.workingDirectory) /\ node.workingDirectory.t # "string"
  THEN "Pane workingDirectory must be a string"
  ELSE IF /\ In(node.size)
          /\ (node.size.t # "number" \/ node.size.v <= 0 \/ node.size.v > 100)
  THEN "Pane size must be between 1 and 100"
  ELSE Accepted

\* a validator of Splits that looks at the panes among the children only
validateSplitNodeShallow(node) ==
  IF ~isRecord(node) THEN "Split must be an object"
  ELSE IF node.direction \notin {Str(<<"vertical">>), Str(<<"horizontal">>)}
  THEN "Split direction must be vertical or horizontal"
  ELSE IF node.panes.t # "array" \/ node.panes.v = <<>>
  THEN "Split panes must be a non-empty array"
  ELSE LET bad == {k \in DOMAIN node.panes.v :
                     /\ isRecord(node.panes.v[k])
                     /\ In(node.panes.v[k].command)
                     /\ validatePaneNode(node.panes.v[k]) # Accepted}
       IN  IF bad = {} THEN Accepted
           ELSE validatePaneNode(node.panes.v[CHOOSE k \in bad : \A j \in bad : k <= j])

RECURSIVE validateSplitNode(_)
RECURSIVE validateChildren(_)

\* lines 60-66: the loop over node.panes, which the first throw leaves
validateChildren(panes) ==
  IF panes = <<>> THEN Accepted
  ELSE LET pane == Head(panes)
           first == IF isRecord(pane) /\ In(pane.command)
                    THEN validatePaneNode(pane)
                    ELSE validateSplitNode(pane)
       IN  IF first # Accepted THEN first ELSE validateChildren(Tail(panes))

\* lines 43-67
validateSplitNode(node) ==
  IF ~isRecord(node) THEN "Split must be an object"
  ELSE IF node.direction \notin {Str(<<"vertical">>), Str(<<"horizontal">>)}
  THEN "Split direction must be vertical or horizontal"
  ELSE IF node.panes.t # "array" \/ node.panes.v = <<>>
  THEN "Split panes must be a non-empty array"
  ELSE validateChildren(node.panes.v)

\* lines 69-73
validateLayoutStructure(value) == validateSplitNode(value)

\* The values tried. Leaves: panes with a command that is good, padded,
\* empty, blank or no string, with a workingDirectory or size that is good
\* or not, and a value that is no object.
SchemaPane(command, workingDirectory, size) ==
  Obj(command, NoKey, NoKey, workingDirectory, size)

SchemaLeaves ==
  { SchemaPane(Str(<<"l", "s">>), NoKey, NoKey),
    SchemaPane(Str(<<" ", "l", "s", "\n">>), Str(<<"a">>), Num(50)),
    SchemaPane(Str(<<>>), NoKey, NoKey),
    SchemaPane(Str(<<" ", "\t">>), NoKey, NoKey),
    SchemaPane(Num(5), NoKey, NoKey),
    SchemaPane(Str(<<"l", "s">>), Num(5), NoKey),
    SchemaPane(Str(<<"l", "s">>), NoKey, Num(101)),
    Num(7) }

SchemaDirections ==
  {Str(<<"vertical">>), Str(<<"horizontal">>), Str(<<"diagonal">>)}

SchemaSplit(direction, panes) == Obj(NoKey, direction, panes, NoKey, NoKey)

\* Every value of exactly n nodes, and every list of values of n nodes in all.
RECURSIVE SchemaValuesOfSize(_)
RECURSIVE SchemaListsOfSize(_)
SchemaValuesOfSize(n) ==
  IF n = 1
  THEN SchemaLeaves
         \cup {SchemaSplit(d, p) : d \in SchemaDirections, p \in {Arr(<<>>), NoKey}}
  ELSE {SchemaSplit(d, Arr(l)) : d \in SchemaDirections, l \in SchemaListsOfSize(n - 1)}
SchemaListsOfSize(n) ==
  IF n = 0 THEN {<<>>}
  ELSE UNION { {<<v>> \o l : v \in SchemaValuesOfSize(k), l \in SchemaListsOfSize(n - k)} :
               k \in 1..n }

SchemaValues == UNION { SchemaValuesOfSize(n) : n \in 1..MaxSchemaNodes }

SchemaInit ==
  /\ EngineAbsent
  /\ RetryAbsent
  /\ BreakerAbsent
  /\ DelayAbsent
  /\ RecentAbsent /\ LastUsedAbsent /\ LibraryAbsent /\ QueueAbsent
  /\ \E value \in SchemaValues : schema = [pc |-> "call", value |-> value]

\* validateLayoutStructure(value) returns or throws
Validate ==
  /\ schema.pc = "call"
  /\ schema' = [pc |-> "returned", value |-> schema.value,
                verdict |-> validateLayoutStructure(schema.value)]
  /\ UNCHANGED <<engineVars, retryVars, breakerVars, delayVars, recent, lastUsed,
                 library, queue>>

SchemaNext == Validate

SchemaSpec == SchemaInit /\ [][SchemaNext]_vars

\* The value and the values below it, through the panes that are arrays.
RECURSIVE NodesOf(_)
RECURSIVE NodesOfAll(_)
NodesOf(value) ==
  {value} \cup (IF isRecord(value) /\ value.panes.t = "array"
                THEN NodesOfAll(value.panes.v) ELSE {})
NodesOfAll(values) ==
  IF values = <<>> THEN {} ELSE NodesOf(Head(values)) \cup NodesOfAll(Tail(values))

\* a node that has a direction or panes and no command, resp. a command and
\* neither direction nor panes
IsSplitValue(n) ==
  isRecord(n) /\ ~In(n.command) /\ (In(n.direction) \/ In(n.panes))
IsPaneValue(n) ==
  isRecord(n) /\ In(n.command) /\ ~In(n.direction) /\ ~In(n.panes)

EmptySplit(n) == IsSplitValue(n) /\ n.panes = Arr(<<>>)
MisdirectedSplit(n) ==
  IsSplitValue(n) /\ n.direction \notin {Str(<<"vertical">>), Str(<<"horizontal">>)}
BlankPane(n) ==
  IsPaneValue(n) /\ n.command.t = "string" /\ Trim(n.command.v) = <<>>

-----------------------------------------------------------------------------
(* services/launch-context.ts: the recent repositories *)

MAX_RECENT_REPOS == 20

\* Repository paths, told apart by a number. The stored JSON text of a list
\* of such paths is represented by the list: JSON.stringify and JSON.parse
\* give an array of strings back as it was.
RepoPaths == 1..(MAX_RECENT_REPOS + MaxExtraPaths)

\* LocalStorage.getItem of a key never set
NothingStored == [t |-> "undefined"]
StoredList(paths) == [t |-> "string", v |-> paths]

\* Array.prototype.slice(0, max)
Slice(paths, max) == SubSeq(paths, 1, IF Len(paths) < max THEN Len(paths) ELSE max)

\* Array.from(new Set(paths)): the first occurrence of each path, in order
RECURSIVE FromSet(_, _)
FromSet(paths, seen) ==
  IF paths = <<>> THEN <<>>
  ELSE IF Head(paths) \in seen THEN FromSet(Tail(paths), seen)
  ELSE <<Head(paths)>> \o FromSet(Tail(paths), seen \cup {Head(paths)})

\* a list cut to max entries with its repetitions left in
dedupePathsSliceOnly(paths, max) == Slice(paths, max)

\* lines 22-24
dedupePaths(paths, max) == Slice(FromSet(paths, {}), max)

\* lines 42-45: getRecentRepos on what getItem returned
getRecentRepos(value) == IF value = NothingStored THEN <<>> ELSE value.v

\* The list 1, 2, .., n, and the same list from n down to 1
Ascending(n) == [k \in 1..n |-> k]
Descending(n) == [k \in 1..n |-> n + 1 - k]

RecentInit ==
  /\ EngineAbsent
  /\ RetryAbsent
  /\ BreakerAbsent
  /\ DelayAbsent
  /\ SchemaAbsent /\ LastUsedAbsent /\ LibraryAbsent /\ QueueAbsent
  /\ \E stored \in {NothingStored}
                     \cup {StoredList(Ascending(n)) : n \in 0..MAX_RECENT_REPOS}
                     \cup {StoredList(Descending(n)) : n \in 2..MAX_RECENT_REPOS} :
       recent = [pc |-> "idle", stored |-> stored, n |-> 0]

\* lines 47-48: addRecentRepo(repoPath) is called and reads the stored list
AddRecentRepoReads(repoPath) ==
  /\ recent.pc \in {"idle", "done"}
  /\ recent.n < MaxRecentCalls
  /\ recent' = [pc |-> "read", stored |-> recent.stored, n |-> recent.n + 1,
                repoPath |-> repoPath,
                recent |-> getRecentRepos(recent.stored)]
  /\ UNCHANGED <<engineVars, retryVars, breakerVars, delayVars, schema, lastUsed,
                 library, queue>>

\* lines 49-50: it stores the new list and returns
AddRecentRepoWrites ==
  /\ recent.pc = "read"
  /\ recent' = [recent EXCEPT
        !.pc = "done",
        !.stored = StoredList(dedupePaths(<<recent.repoPath>> \o recent.recent,
                                          MAX_RECENT_REPOS))]
  /\ UNCHANGED <<engineVars, retryVars, breakerVars, delayVars, schema, lastUsed,
                 library, queue>>

RecentNext ==
  \/ \E repoPath \in RepoPaths : AddRecentRepoReads(repoPath)
  \/ AddRecentRepoWrites

RecentSpec == RecentInit /\ [][RecentNext]_vars

\* a list without the path p
Without(paths, p) == SelectSeq(paths, LAMBDA x : x # p)

\* C32: when a call addRecentRepo(p) has completed, the stored list starts
\* with p, holds no path twice, holds after p the other paths stored before
\* the call in the order they had, all of them unless the list would exceed 20
\* entries, and has at most 20 entries.
C32_RecentListAfterAdd ==
  recent.pc = "done" =>
    LET list == recent.stored.v
        others == Without(recent.recent, recent.repoPath)
    IN  /\ recent.stored.t = "string"
        /\ list[1] = recent.repoPath
        /\ \A j, k \in DOMAIN list : list[j] = list[k] => j = k
        /\ IsPrefix(Tail(list), others)
        /\ Len(list) = (IF Len(others) + 1 < MAX_RECENT_REPOS
                        THEN Len(others) + 1 ELSE MAX_RECENT_REPOS)
        /\ Len(list) <= MAX_RECENT_REPOS

\* a path stored in the middle of a full list has been added again, after a
\* call that pushed the last path off the full list
C32_Witness ==
  /\ recent.pc = "done"
  /\ recent.n = 2
  /\ Len(recent.recent) = MAX_RECENT_REPOS
  /\ recent.recent[1] = MAX_RECENT_REPOS + 1
  /\ recent.repoPath = 10
  /\ Len(recent.stored.v) = MAX_RECENT_REPOS


-----------------------------------------------------------------------------
(* services/launch-context.ts: the last used repository of each layout *)

LayoutIds == {"layout-1", "layout-2", "layout-3"}

\* map[layoutId] of a layout the map has no entry for
Undefined == 0

\* {} and JSON.parse of a stored text; the text is represented by the map it
\* encodes
EmptyMap == [id \in LayoutIds |-> Undefined]
StoredMap(map) == [t |-> "string", v |-> map]

\* lines 11-16: getLastUsedMap on what getItem returned
getLastUsedMap(value) == IF value = NothingStored THEN EmptyMap ELSE value.v

\* lines 26-31: getLastUsedRepo on what getItem returned
getLastUsedRepo(value, layoutId) == getLastUsedMap(value)[layoutId]

\* The two callers, the layout each sets and the paths it may set it to
Callers == {1, 2}
LayoutOf(caller) == IF caller = 1 THEN "layout-1" ELSE "layout-2"
LastUsedPaths == {1, 2}

LastUsedInit ==
  /\ EngineAbsent
  /\ RetryAbsent
  /\ BreakerAbsent
  /\ DelayAbsent
  /\ SchemaAbsent /\ RecentAbsent /\ LibraryAbsent /\ QueueAbsent
  /\ \E stored \in {NothingStored}
                     \cup {StoredMap([EmptyMap EXCEPT ![id] = 1]) : id \in LayoutIds} :
       lastUsed = [stored |-> stored,
                   call |-> [c \in Callers |-> [pc |-> "idle"]]]

\* line 37: setLastUsedRepo(layoutId, repoPath) is called and asks for the map
SetLastUsedRepoCalled(c, repoPath) ==
  /\ lastUsed.call[c].pc = "idle"
  /\ lastUsed' = [lastUsed EXCEPT
        !.call[c] = [pc |-> "getItem", layoutId |-> LayoutOf(c),
                     repoPath |-> repoPath]]
  /\ UNCHANGED <<engineVars, retryVars, breakerVars, delayVars, schema, recent,
                 library, queue>>

\* lines 37-38: getItem resolves with what is stored now; map[layoutId] = repoPath
GetItemResolves(c) ==
  /\ lastUsed.call[c].pc = "getItem"
  /\ LET call == lastUsed.call[c]
         map == getLastUsedMap(lastUsed.stored)
     IN  lastUsed' = [lastUsed EXCEPT
           !.call[c] = [pc |-> "setItem", layoutId |-> call.layoutId,
                        repoPath |-> call.repoPath,
                        map |-> [map EXCEPT ![call.layoutId] = call.repoPath]]]
  /\ UNCHANGED <<engineVars, retryVars, breakerVars, delayVars, schema, recent,
                 library, queue>>

\* line 39 and lines 18-20: setItem stores the caller's map; the call returns
SetItemResolves(c) ==
  /\ lastUsed.call[c].pc = "setItem"
  /\ lastUsed' = [lastUsed EXCEPT
        !.stored = StoredMap(lastUsed.call[c].map),
        !.call[c] = [pc |-> "returned", layoutId |-> @.layoutId,
                     repoPath |-> @.repoPath]]
  /\ UNCHANGED <<engineVars, retryVars, breakerVars, delayVars, schema, recent,
                 library, queue>>

LastUsedNext ==
  \E c \in Callers :
     \/ \E repoPath \in LastUsedPaths : SetLastUsedRepoCalled(c, repoPath)
     \/ GetItemResolves(c)
     \/ SetItemResolves(c)

LastUsedSpec == LastUsedInit /\ [][LastUsedNext]_vars

\* C39: as stated, once two setLastUsedRepo calls for different layout ids
\* have both returned, whatever the order of their reads and writes was,
\* getLastUsedRepo gives for each of the two layouts the path set for it.
C39_BothCallsTakeEffect ==
  (\A c \in Callers : lastUsed.call[c].pc = "returned") =>
    \A c \in Callers :
       getLastUsedRepo(lastUsed.stored, lastUsed.call[c].layoutId)
         = lastUsed.call[c].repoPath


-----------------------------------------------------------------------------
(* services/template-library.ts: importCustomNodeTemplates *)

Template(id, title, node) == [t |-> "object", id |-> id, title |-> title, node |-> node]

GoodNode == SchemaPane(Str(<<"l", "s">>), NoKey, NoKey)
BlankNode == SchemaPane(Str(<<" ">>), NoKey, NoKey)

\* lines 25-32
validateTemplateNode(node) ==
  IF isRecord(node) /\ In(node.command) THEN validatePaneNode(node)
  ELSE validateSplitNode(node)

\* lines 34-48
validateTemplate(value) ==
  IF ~isRecord(value) THEN "Template must be an object"
  ELSE IF value.id.t # "string" \/ Trim(value.id.v) = <<>>
  THEN "Template id is required"
  ELSE IF value.title.t # "string" \/ Trim(value.title.v) = <<>>
  THEN "Template title is required"
  ELSE validateTemplateNode(value.node)

\* lines 50-56
normalizeTemplate(value) ==
  Template(value.id, Str(Trim(value.title.v)), value.node)

\* String.prototype.localeCompare on the titles in use: letter by letter
Rank(char) == CASE char = "A" -> 1 [] char = "B" -> 2 [] OTHER -> 3
RECURSIVE Before(_, _)
Before(a, b) ==
  IF b = <<>> THEN FALSE
  ELSE IF a = <<>> THEN TRUE
  ELSE IF Rank(Head(a)) # Rank(Head(b)) THEN Rank(Head(a)) < Rank(Head(b))
  ELSE Before(Tail(a), Tail(b))

\* lines 62-64: [...templates].sort by title, equal titles keeping their order
RECURSIVE sortTemplates(_)
Insert(sorted, template) ==
  LET later == {k \in DOMAIN sorted : Before(template.title.v, sorted[k].title.v)}
      at == IF later = {} THEN Len(sorted) + 1
            ELSE CHOOSE k \in later : \A j \in later : k <= j
  IN  SubSeq(sorted, 1, at - 1) \o <<template>> \o SubSeq(sorted, at, Len(sorted))
sortTemplates(templates) ==
  IF templates = <<>> THEN <<>>
  ELSE Insert(sortTemplates(SubSeq(templates, 1, Len(templates) - 1)),
              templates[Len(templates)])

\* generateTemplateId(): one of the ids it can produce
GeneratedIds == {<<"g", d>> : d \in {"1", "2", "3", "4", "5"}}

\* the preferred id of an incoming template is kept although it is in use
ensureUniqueIdKeepsPreferred(preferredId, usedIds) ==
  IF preferredId # NoKey /\ Trim(preferredId.v) # <<>>
  THEN {Trim(preferredId.v)}
  ELSE GeneratedIds \ usedIds

\* lines 66-84: the ids ensureUniqueId can return; the loop ends with a
\* generated id that is not in use
ensureUniqueId(preferredId, usedIds) ==
  IF /\ preferredId # NoKey
     /\ Trim(preferredId.v) # <<>>
     /\ Trim(preferredId.v) \notin usedIds
  THEN {Trim(preferredId.v)}
  ELSE GeneratedIds \ usedIds

\* lines 86-106: what parseRawTemplatePayload throws, if anything
RawTemplateError(value) ==
  IF ~isRecord(value) THEN "Template payload must be an object"
  ELSE IF value.title.t # "string" \/ Trim(value.title.v) = <<>>
  THEN "Template payload must include title"
  ELSE validateTemplateNode(value.node)

\* lines 97-105: what it returns otherwise
parseRawTemplatePayload(value) ==
  Template(IF value.id.t = "string" /\ Trim(value.id.v) # <<>>
           THEN Str(Trim(value.id.v)) ELSE NoKey,
           Str(Trim(value.title.v)), value.node)

\* lines 108-115: the text setTemplates stores, represented by the list
setTemplates(templates) ==
  LET sorted == sortTemplates(templates)
  IN  StoredList([k \in DOMAIN sorted |-> normalizeTemplate(sorted[k])])

\* lines 117-139
getCustomNodeTemplates(raw) ==
  IF raw = NothingStored THEN <<>>
  ELSE IF \E k \in DOMAIN raw.v : validateTemplate(raw.v[k]) # Accepted THEN <<>>
  ELSE sortTemplates([k \in DOMAIN raw.v |-> normalizeTemplate(raw.v[k])])

\* The templates a payload may hold: every id with two titles, one of them
\* padded, and a template without title, one with a blank command and a
\* value that is no object.
IncomingIds ==
  {NoKey, Str(<<"a">>), Str(<<"b">>), Str(<<" ", "a">>), Str(<<" ">>),
   Str(<<"g", "1">>)}

IncomingTemplates ==
  {Template(id, title, GoodNode) :
     id \in IncomingIds, title \in {Str(<<"A">>), Str(<<" ", "B">>)}}
    \cup {Template(Str(<<"a">>), Str(<<" ">>), GoodNode),
          Template(Str(<<"a">>), Str(<<"A">>), BlankNode),
          Num(7)}

RECURSIVE ListsUpTo(_, _)
ListsUpTo(items, n) ==
  IF n = 0 THEN {<<>>}
  ELSE LET shorter == ListsUpTo(items, n - 1)
       IN  shorter \cup {Append(l, x) : l \in {m \in shorter : Len(m) = n - 1},
                                        x \in items}

\* JSON.parse(payload): an array of up to MaxIncoming templates, a value that
\* is no array, or a SyntaxError
Payloads ==
  {Arr(l) : l \in ListsUpTo(IncomingTemplates, MaxIncoming)}
    \cup {Num(7), [t |-> "SyntaxError"]}

\* What is stored before the call: lists setTemplates has written
StoredTemplates ==
  {NothingStored,
   StoredList(<<Template(Str(<<"a">>), Str(<<"A">>), GoodNode)>>),
   StoredList(<<Template(Str(<<"b">>), Str(<<"B">>), GoodNode)>>),
   StoredList(<<Template(Str(<<"g", "1">>), Str(<<"A">>), GoodNode),
                Template(Str(<<"a">>), Str(<<"B">>), GoodNode)>>)}

LibraryInit ==
  /\ EngineAbsent
  /\ RetryAbsent
  /\ BreakerAbsent
  /\ DelayAbsent
  /\ SchemaAbsent /\ RecentAbsent /\ LastUsedAbsent /\ QueueAbsent
  /\ \E stored \in StoredTemplates : library = [pc |-> "idle", stored |-> stored]

LibraryUnchanged ==
  UNCHANGED <<engineVars, retryVars, breakerVars, delayVars, schema, recent,
              lastUsed, queue>>

Throws(message) ==
  library' = [pc |-> "threw", stored |-> library.stored, message |-> message]

\* lines 172-191: the payload is parsed and its templates are read; in
\* replace mode there are no existing templates
ImportCalled(payload, mode) ==
  /\ library.pc = "idle"
  /\ IF payload.t = "SyntaxError" THEN Throws("Invalid JSON payload")
     ELSE IF payload.t # "array" THEN Throws("Template payload must be an array")
     ELSE LET bad == {k \in DOMAIN payload.v : RawTemplateError(payload.v[k]) # Accepted}
          IN  IF bad # {}
              THEN Throws(RawTemplateError(
                     payload.v[CHOOSE k \in bad : \A j \in bad : k <= j]))
              ELSE library' =
                     [pc |-> IF mode = "replace" THEN "ids" ELSE "getItem",
                      stored |-> library.stored, mode |-> mode,
                      incoming |-> [k \in DOMAIN payload.v |->
                                      parseRawTemplatePayload(payload.v[k])],
                      existingTemplates |-> <<>>,
                      usedIds |-> {},
                      importedTemplates |-> <<>>]
  /\ LibraryUnchanged

\* lines 193-195: merge mode reads the stored templates
ExistingRead ==
  /\ library.pc = "getItem"
  /\ LET existing == getCustomNodeTemplates(library.stored)
     IN  library' = [library EXCEPT
           !.pc = "ids",
           !.existingTemplates = existing,
           !.usedIds = {existing[k].id.v : k \in DOMAIN existing}]
  /\ LibraryUnchanged

\* lines 197-201: the next incoming template gets its id
AssignId ==
  /\ library.pc = "ids"
  /\ Len(library.importedTemplates) < Len(library.incoming)
  /\ LET template == library.incoming[Len(library.importedTemplates) + 1]
     IN  \E id \in ensureUniqueId(template.id, library.usedIds) :
            library' = [library EXCEPT
              !.usedIds = @ \cup {id},
              !.importedTemplates =
                 Append(@, Template(Str(id), template.title, template.node))]
  /\ LibraryUnchanged

\* lines 203-209: the merged list is stored and the counts are returned
ImportReturns ==
  /\ library.pc = "ids"
  /\ Len(library.importedTemplates) = Len(library.incoming)
  /\ LET mergedTemplates == library.existingTemplates \o library.importedTemplates
     IN  library' = [pc |-> "returned",
                     stored |-> setTemplates(mergedTemplates),
                     mode |-> library.mode,
                     incoming |-> library.incoming,
                     existingTemplates |-> library.existingTemplates,
                     importedTemplates |-> library.importedTemplates,
                     imported |-> Len(library.importedTemplates),
                     total |-> Len(mergedTemplates)]
  /\ LibraryUnchanged

LibraryNext ==
  \/ /\ library.pc = "idle"
     /\ \E payload \in Payloads, mode \in {"merge", "replace"} :
           ImportCalled(payload, mode)
  \/ ExistingRead
  \/ AssignId
  \/ ImportReturns

LibrarySpec == LibraryInit /\ [][LibraryNext]_vars

\* the ids of a list of templates, in order
IdsOf(templates) == [k \in DOMAIN templates |-> templates[k].id.v]
Elements(list) == {list[k] : k \in DOMAIN list}

\* the id incoming template k asked for, <<>> if none
Preferred(k) ==
  IF library.incoming[k].id = NoKey THEN <<>> ELSE library.incoming[k].id.v

\* the ids in use when incoming template k got its id
UsedBefore(k) ==
  Elements(IdsOf(library.existingTemplates))
    \cup {library.importedTemplates[j].id.v : j \in 1..(k - 1)}

\* C33: when importCustomNodeTemplates has returned in merge mode, the
\* stored ids are pairwise distinct; every template stored before is stored
\* still, with the id it had; an incoming template whose id was in use by a
\* stored or an earlier incoming template has an id that was not in use and
\* is not the one it asked for; and the total returned is the number of
\* templates stored before plus the number imported, which is the number
\* stored now.
C33_MergeKeepsIdsDistinct ==
  (library.pc = "returned" /\ library.mode = "merge") =>
    LET stored == library.stored.v
        before == library.existingTemplates
    IN  /\ \A j, k \in DOMAIN stored : stored[j].id = stored[k].id => j = k
        /\ \A k \in DOMAIN before : before[k] \in Elements(stored)
        /\ \A k \in DOMAIN library.incoming :
             Preferred(k) \in UsedBefore(k) =>
               /\ library.importedTemplates[k].id.v \notin UsedBefore(k)
               /\ library.importedTemplates[k].id.v # Preferred(k)
               /\ library.importedTemplates[k] \in Elements(stored)
        /\ library.imported = Len(library.incoming)
        /\ library.total = Len(before) + library.imported
        /\ Len(stored) = library.total

\* two incoming templates both asked for the stored id "a", the second one
\* padded, and both were stored under other ids
C33_Witness ==
  /\ library.pc = "returned"
  /\ library.mode = "merge"
  /\ Len(library.existingTemplates) = 2
  /\ Len(library.incoming) = 2
  /\ library.incoming[1].id = Str(<<"a">>)
  /\ library.incoming[2].id = Str(<<"a">>)
  /\ library.total = 4


-----------------------------------------------------------------------------
(* services/applescript-queue.ts: executeBatch, one script after the other *)

Scripts == {"s1", "s2"}

NotCached == [cached |-> FALSE]

\* the promise in this.queue
Fulfilled == [state |-> "fulfilled"]
QueueRejected(reason) == [state |-> "rejected", reason |-> reason]

\* lines 118-123: what a run of the script gave; the id tells the runs apart
ScriptResult(script, id) ==
  [stdout |-> <<script, id>>, stderr |-> <<>>, executionTime |-> "elapsed"]

\* lines 127-133
QueueScriptError(script, id) ==
  [message |-> <<"Failed to execute script: ", id>>, script |-> script]

\* lines 165-169
ErrorResult(reason) ==
  [stdout |-> <<>>, stderr |-> reason.message, executionTime |-> 0]

\* lines 198-211: the result is kept under the script's text with the time of
\* caching in executionTime; the history stays far below its size limit
cacheResult(history, script, result) ==
  [history EXCEPT ![script] =
     [cached |-> TRUE, fresh |-> TRUE,
      result |-> [result EXCEPT !.executionTime = "cachedAt"]]]

\* lines 213-217: less than 60 seconds old
isCacheValid(entry) == entry.fresh

QueueInit ==
  /\ EngineAbsent
  /\ RetryAbsent
  /\ BreakerAbsent
  /\ DelayAbsent
  /\ SchemaAbsent /\ RecentAbsent /\ LastUsedAbsent /\ LibraryAbsent
  /\ queue = [pc |-> "idle", promise |-> Fulfilled,
              scriptHistory |-> [script \in Scripts |-> NotCached],
              scripts |-> <<>>, stopOnError |-> FALSE, results |-> <<>>,
              ids |-> <<>>, ran |-> <<>>, generated |-> 0, batches |-> 0]

QueueUnchanged ==
  UNCHANGED <<engineVars, retryVars, breakerVars, delayVars, schema, recent,
              lastUsed, library>>

\* lines 149-156: executeBatch(scripts, {sequential: true, stopOnError})
ExecuteBatchCalled(scripts, stopOnError) ==
  /\ queue.pc \in {"idle", "returned", "threw"}
  /\ queue.batches < MaxBatches
  /\ queue' = [queue EXCEPT
       !.pc = "loop", !.scripts = scripts, !.stopOnError = stopOnError,
       !.results = <<>>, !.ids = <<>>, !.ran = <<>>, !.batches = @ + 1]
  /\ QueueUnchanged

\* the script the loop of executeBatch is at
AtScript == queue.scripts[Len(queue.ids) + 1]

InLoop ==
  /\ queue.pc = "loop"
  /\ Len(queue.ids) < Len(queue.scripts)

\* the catch of executeBatch, lines 160-170
BatchCatches(reason, id, promise, ran) ==
  queue' = [queue EXCEPT
    !.pc = IF queue.stopOnError THEN "threw" ELSE "loop",
    !.results = IF queue.stopOnError THEN @ ELSE Append(@, ErrorResult(reason)),
    !.ids = Append(@, id), !.generated = id, !.promise = promise, !.ran = ran]

\* lines 40-53: execute answers from the history
ExecuteCached ==
  /\ InLoop
  /\ LET entry == queue.scriptHistory[AtScript]
     IN  /\ entry.cached /\ isCacheValid(entry)
         /\ queue' = [queue EXCEPT
              !.results = Append(@, entry.result),
              !.ids = Append(@, queue.generated + 1),
              !.generated = @ + 1]
  /\ QueueUnchanged

\* lines 55-57 on a fulfilled this.queue: executeScript is called
ExecuteQueued ==
  /\ InLoop
  /\ LET entry == queue.scriptHistory[AtScript]
     IN  ~(entry.cached /\ isCacheValid(entry))
  /\ queue.promise = Fulfilled
  /\ queue' = [queue EXCEPT
       !.pc = "executeScript",
       !.ids = Append(@, queue.generated + 1),
       !.generated = @ + 1]
  /\ QueueUnchanged

\* lines 55-57 on a rejected this.queue: then() hands the rejection on
\* without calling executeScript, and the await in executeBatch throws it
ExecutePassesRejection ==
  /\ InLoop
  /\ LET entry == queue.scriptHistory[AtScript]
     IN  ~(entry.cached /\ isCacheValid(entry))
  /\ queue.promise.state = "rejected"
  /\ BatchCatches(queue.promise.reason, queue.generated + 1, queue.promise, queue.ran)
  /\ QueueUnchanged

\* lines 96-126: the script ran and its result is cached and returned
ScriptSucceeds ==
  /\ queue.pc = "executeScript"
  /\ LET id == queue.ids[Len(queue.ids)]
         script == queue.scripts[Len(queue.ids)]
         result == ScriptResult(script, id)
     IN  queue' = [queue EXCEPT
           !.pc = "loop",
           !.scriptHistory = cacheResult(@, script, result),
           !.results = Append(@, result),
           !.ran = Append(@, id),
           !.promise = Fulfilled]
  /\ QueueUnchanged

\* lines 96-139: the script failed on every attempt of withRetry
ScriptFails ==
  /\ queue.pc = "executeScript"
  /\ LET id == queue.ids[Len(queue.ids)]
         script == queue.scripts[Len(queue.ids)]
         reason == QueueScriptError(script, id)
     IN  queue' = [queue EXCEPT
           !.pc = IF queue.stopOnError THEN "threw" ELSE "loop",
           !.results = IF queue.stopOnError THEN @
                       ELSE Append(@, ErrorResult(reason)),
           !.ran = Append(@, id),
           !.promise = QueueRejected(reason)]
  /\ QueueUnchanged

\* line 177
BatchReturns ==
  /\ queue.pc = "loop"
  /\ Len(queue.ids) = Len(queue.scripts)
  /\ queue' = [queue EXCEPT !.pc = "returned"]
  /\ QueueUnchanged

\* 60 seconds pass: what is cached is no longer valid
CacheAges ==
  /\ queue.pc \in {"loop", "returned", "threw"}
  /\ \E script \in Scripts :
        queue.scriptHistory[script].cached /\ queue.scriptHistory[script].fresh
  /\ queue' = [queue EXCEPT
       !.scriptHistory = [script \in Scripts |->
          IF @[script].cached THEN [@[script] EXCEPT !.fresh = FALSE]
          ELSE @[script]]]
  /\ QueueUnchanged

QueueNext ==
  \/ /\ queue.pc \in {"idle", "returned", "threw"}
     /\ \E scripts \in ListsUpTo(Scripts, MaxBatchLen), stopOnError \in BOOLEAN :
           ExecuteBatchCalled(scripts, stopOnError)
  \/ ExecuteCached
  \/ ExecuteQueued
  \/ ExecutePassesRejection
  \/ ScriptSucceeds
  \/ ScriptFails
  \/ BatchReturns
  \/ CacheAges

QueueSpec == QueueInit /\ [][QueueNext]_vars

\* C38: when executeBatch(scripts, {sequential: true, stopOnError: false})
\* has returned, every script of the list was run, in list order, and the
\* k-th result is the k-th script's own: the result of its run, or an error
\* result with the failure of its run.
C38_EveryScriptRunWithOwnResult ==
  (queue.pc = "returned" /\ ~queue.stopOnError) =>
    /\ queue.ran = queue.ids
    /\ Len(queue.results) = Len(queue.scripts)
    /\ \A k \in DOMAIN queue.scripts :
         \/ queue.results[k] = ScriptResult(queue.scripts[k], queue.ids[k])
         \/ queue.results[k] =
              ErrorResult(QueueScriptError(queue.scripts[k], queue.ids[k]))

\* The same leaving the history aside: a result that reports a failure
\* reports the failure of its own script
OwnFailureReported ==
  (queue.pc = "returned" /\ ~queue.stopOnError) =>
    \A k \in DOMAIN queue.scripts :
      \/ queue.results[k].stderr = <<>>
      \/ queue.results[k] =
           ErrorResult(QueueScriptError(queue.scripts[k], queue.ids[k]))

====
